---- MODULE Spec2Model ----
(***************************************************************************)
(* digiLogRT cache-and-sync pipeline: the per-adapter file caches, the     *)
(* cache-warming pass, the client pool's one-time initialization and the   *)
(* normalization/upsert layer over the relational store.                   *)
(*                                                                         *)
(* Durations are in hours.  Records fetched from a provider are opaque     *)
(* payloads; the relational store's rows are modelled field by field.      *)
(***************************************************************************)
EXTENDS Integers, Sequences, FiniteSets, TLC

VARIABLES
    focus,   \* the adapter the running program uses (one of the per-adapter mains)
    ti,      \* index of the wall clock into TimePoints
    blob,    \* blob[a]: the adapter's cache file (exists, mtime, data)
    last,    \* observation of the last adapter call (call inputs and results)
    warm,    \* the WarmCaches call in progress: its arguments, goroutines, channel
    pool,    \* the ClientPool: its Once, its clients, the goroutines, the callers
    build,   \* which of the two SyncBrandmeisterData versions is compiled in
    store,   \* the committed content of the relational store
    conn,    \* the task holding the store's only connection, or NoTask
    sync,    \* sync[k]: the Sync* call of task k (position, arguments, transaction)
    lastSync, \* the Sync* call that returned last, until another one starts
    upsert,   \* upsert[k]: the UpsertLocation call of task k (position, arguments, result)
    fast,     \* a run of a sync entry point: its strategy, cache files, sources, report
    aprs,     \* the decoding of one position-service station: JSON fields, result
    refresh,  \* one refreshData call of the network-repeater adapter: client, answers, result
    lookup,   \* one GetRepeatersByFrequency call: the table, the arguments, the result
    fan,      \* one run of a function that starts workers and collects from their channel
    ensure    \* the last ensureData-based operation of the client of the last call

vars == <<focus, ti, blob, last, warm, pool, build, store, conn, sync, lastSync, upsert, fast, aprs, refresh, lookup, fan, ensure>>

(***************************************************************************)
(* Adapters, payloads and the clock                                        *)
(***************************************************************************)
Adapters == {"brandmeister", "tgif", "hearham"}

Nil == "nil"
Payloads == {"p1", "p2"}
NetOutcomes == {"fail"} \cup Payloads

\* Instants at which the clock is sampled (hours since the first one).
TimePoints == <<0, 2, 6, 7, 24, 25, 26>>
MaxTicks == 5

Now == TimePoints[ti]

ZeroTime == -1000000          \* the zero time.Time of a fresh client

\* The age ceilings hard-coded in each adapter's loadFromCache.
BrandmeisterLoadMaxAge == 24
HearhamLoadMaxAge == 6
TGIFLoadMaxAge == 2

\* The thresholds hard-coded in each adapter's CheckCacheAge.
BrandmeisterCheckMaxAge == 24
HearhamCheckMaxAge == 6
TGIFCheckMaxAge == 2

\* The windows configured by the constructors.
HearhamCacheTime == 24
HearhamStartupRefresh == 6
TGIFCacheTime == 6
TGIFStartupRefresh == 2
BrandmeisterCacheMaxAge == 24

\* Candidate endpoints of the network-repeater adapter.
NumEndpoints == 3

NoBlob == [exists |-> FALSE, mtime |-> 0, data |-> Nil]

\* NewBrandmeisterClient / NewTGIFClient / NewHearhamClient: a client with no
\* in-memory records, an invalid cache flag and a zero lastUpdate.
NewClient(a) ==
    [a |-> a, allData |-> Nil, cacheValid |-> FALSE, lastUpdate |-> ZeroTime]

LoadMaxAge(a) ==
    CASE a = "brandmeister" -> BrandmeisterLoadMaxAge
      [] a = "hearham"      -> HearhamLoadMaxAge
      [] a = "tgif"         -> TGIFLoadMaxAge

CheckMaxAge(a) ==
    CASE a = "brandmeister" -> BrandmeisterCheckMaxAge
      [] a = "hearham"      -> HearhamCheckMaxAge
      [] a = "tgif"         -> TGIFCheckMaxAge

\* The absolute cache ceiling each constructor documents (cacheTime).
CacheTime(a) ==
    CASE a = "brandmeister" -> BrandmeisterCacheMaxAge
      [] a = "hearham"      -> HearhamCacheTime
      [] a = "tgif"         -> TGIFCacheTime

(***************************************************************************)
(* The file cache of one adapter                                           *)
(***************************************************************************)

\* A loadFromCache that treats a file whose age equals the ceiling as too old.
loadFromCacheStrict(b, a, now, readOk) ==
    IF ~b.exists THEN [err |-> TRUE, data |-> Nil]
    ELSE IF now - b.mtime >= LoadMaxAge(a) THEN [err |-> TRUE, data |-> Nil]
    ELSE IF ~readOk THEN [err |-> TRUE, data |-> Nil]
    ELSE [err |-> FALSE, data |-> b.data]

\* loadFromCache: stat, age check (age > ceiling is too old), read and parse.
\* readOk is the outcome of os.ReadFile and json.Unmarshal.
loadFromCache(b, a, now, readOk) ==
    IF ~b.exists THEN [err |-> TRUE, data |-> Nil]
    ELSE IF now - b.mtime > LoadMaxAge(a) THEN [err |-> TRUE, data |-> Nil]
    ELSE IF ~readOk THEN [err |-> TRUE, data |-> Nil]
    ELSE [err |-> FALSE, data |-> b.data]

\* saveToCache: MkdirAll, MarshalIndent, WriteFile; the file takes the
\* current time as its mtime.  saveOk is the outcome of the write.
saveToCache(b, data, now, saveOk) ==
    IF saveOk THEN [exists |-> TRUE, mtime |-> now, data |-> data] ELSE b

\* tryEndpoint: one request; on HTTP 200 with a parseable body the client
\* takes the records, the time and a valid cache flag.
tryEndpoint(c, r, now) ==
    IF r = "fail" \/ r = "garbage" THEN [err |-> TRUE, c |-> c]
    ELSE [err |-> FALSE,
          c |-> [c EXCEPT !.allData = r, !.lastUpdate = now, !.cacheValid = TRUE]]

\* refreshData (network-repeater adapter): the candidates in list order,
\* stopping at the first that succeeds.  resp[i] is the i-th candidate's answer.
RECURSIVE refreshDataFrom(_, _, _, _)
refreshDataFrom(c, resp, now, i) ==
    IF i > NumEndpoints THEN [err |-> TRUE, c |-> c, requests |-> NumEndpoints]
    ELSE LET t == tryEndpoint(c, resp[i], now)
         IN  IF ~t.err THEN [err |-> FALSE, c |-> t.c, requests |-> i]
             ELSE refreshDataFrom(c, resp, now, i + 1)

refreshData(c, resp, now) == refreshDataFrom(c, resp, now, 1)

\* The number of candidates in the first definition of refreshData.
NumEndpointsFirst == 5

\* refreshData, first definition: the candidates in list order.  A transport
\* error and a status other than 200 go on to the next candidate; a 200 whose
\* body cannot be parsed returns the error; a 200 with records sets the
\* client's records, time and flag.
RECURSIVE refreshDataFirstFrom(_, _, _, _)
refreshDataFirstFrom(c, resp, now, i) ==
    IF i > NumEndpointsFirst THEN [err |-> TRUE, c |-> c, requests |-> NumEndpointsFirst]
    ELSE IF resp[i] = "fail" THEN refreshDataFirstFrom(c, resp, now, i + 1)
    ELSE IF resp[i] = "garbage" THEN [err |-> TRUE, c |-> c, requests |-> i]
    ELSE [err |-> FALSE, requests |-> i,
          c |-> [c EXCEPT !.allData = resp[i], !.lastUpdate = now, !.cacheValid = TRUE]]

refreshDataFirst(c, resp, now) == refreshDataFirstFrom(c, resp, now, 1)

\* What a candidate can answer: "fail" (transport error, 404, 401, another
\* status), "garbage" (200 with a body that does not parse), or records.
RefreshOutcomes == {"fail", "garbage", "p1"}

\* The clients refreshData is called on: a new one, and one that holds records.
RefreshClients ==
    {NewClient("brandmeister"),
     [NewClient("brandmeister") EXCEPT !.allData = "p2", !.cacheValid = TRUE, !.lastUpdate = 0]}

NoRefresh ==
    [pc |-> "idle", def |-> "none", pre |-> NewClient("brandmeister"),
     resp |-> [i \in 1..NumEndpointsFirst |-> "fail"],
     err |-> FALSE, requests |-> 0, c |-> NewClient("brandmeister")]

\* fetchAllData (community-repeater and talkgroup adapters): one request; on
\* success the client takes the records and the time.
fetchAllData(c, r, now) ==
    IF r = "fail" THEN [err |-> TRUE, c |-> c, requests |-> 1]
    ELSE [err |-> FALSE, requests |-> 1,
          c |-> [c EXCEPT !.allData = r, !.lastUpdate = now]]

\* TGIFClient.refreshData, called by GetAllTalkgroups: a fetch from the network.
TGIFRefreshData(c, r, now) == fetchAllData(c, r, now)

Fetch(c, resp, now) ==
    CASE c.a = "brandmeister" -> refreshData(c, resp, now)
      [] c.a = "hearham"      -> fetchAllData(c, resp[1], now)
      [] c.a = "tgif"         -> TGIFRefreshData(c, resp[1], now)

\* A GetAll whose cache hit also stamps the client with the time of the call.
GetAllHitSetsLastUpdate(c, b, now, readOk, resp, saveOk) ==
    LET ld == loadFromCache(b, c.a, now, readOk) IN
    IF ~ld.err
    THEN [c |-> [c EXCEPT !.allData = ld.data, !.cacheValid = TRUE, !.lastUpdate = now],
          blob |-> b, ret |-> ld.data, err |-> FALSE,
          hit |-> TRUE, fetches |-> 0, requests |-> 0, wrote |-> FALSE]
    ELSE LET f == Fetch(c, resp, now) IN
         IF f.err
         THEN [c |-> f.c, blob |-> b, ret |-> Nil, err |-> TRUE,
               hit |-> FALSE, fetches |-> 1, requests |-> f.requests, wrote |-> FALSE]
         ELSE [c |-> f.c, blob |-> saveToCache(b, f.c.allData, now, saveOk),
               ret |-> f.c.allData, err |-> FALSE,
               hit |-> FALSE, fetches |-> 1, requests |-> f.requests, wrote |-> saveOk]

\* A GetAll that goes to the network without consulting the cache file.
GetAllSkipsCache(c, b, now, readOk, resp, saveOk) ==
    LET f == Fetch(c, resp, now) IN
    IF f.err
    THEN [c |-> f.c, blob |-> b, ret |-> Nil, err |-> TRUE,
          hit |-> FALSE, fetches |-> 1, requests |-> f.requests, wrote |-> FALSE]
    ELSE [c |-> f.c, blob |-> saveToCache(b, f.c.allData, now, saveOk),
          ret |-> f.c.allData, err |-> FALSE,
          hit |-> FALSE, fetches |-> 1, requests |-> f.requests, wrote |-> saveOk]

\* A GetAll that returns the error of a cache file it could not read or parse,
\* and the error of a cache file it could not write.
GetAllSurfacesFileErrors(c, b, now, readOk, resp, saveOk) ==
    LET r == GetAllSkipsCache(c, b, now, readOk, resp, saveOk)
        ld == loadFromCache(b, c.a, now, readOk)
        failed == [c |-> c, blob |-> b, ret |-> Nil, err |-> TRUE,
                   hit |-> FALSE, fetches |-> 0, requests |-> 0, wrote |-> FALSE]
    IN  IF ~ld.err
        THEN [c |-> [c EXCEPT !.allData = ld.data, !.cacheValid = TRUE],
              blob |-> b, ret |-> ld.data, err |-> FALSE,
              hit |-> TRUE, fetches |-> 0, requests |-> 0, wrote |-> FALSE]
        ELSE IF b.exists /\ ~readOk THEN failed
        ELSE IF ~r.err /\ ~saveOk THEN [r EXCEPT !.err = TRUE, !.ret = Nil]
        ELSE r

\* GetAllRepeaters / GetAllTalkgroups on client c with cache file b.
GetAll(c, b, now, readOk, resp, saveOk) ==
    LET ld == loadFromCache(b, c.a, now, readOk) IN
    IF ~ld.err
    THEN [c |-> [c EXCEPT !.allData = ld.data, !.cacheValid = TRUE],
          blob |-> b, ret |-> ld.data, err |-> FALSE,
          hit |-> TRUE, fetches |-> 0, requests |-> 0, wrote |-> FALSE]
    ELSE LET f == Fetch(c, resp, now) IN
         IF f.err
         THEN [c |-> f.c, blob |-> b, ret |-> Nil, err |-> TRUE,
               hit |-> FALSE, fetches |-> 1, requests |-> f.requests, wrote |-> FALSE]
         ELSE [c |-> f.c, blob |-> saveToCache(b, f.c.allData, now, saveOk),
               ret |-> f.c.allData, err |-> FALSE,
               hit |-> FALSE, fetches |-> 1, requests |-> f.requests, wrote |-> saveOk]

\* CheckCacheAge: (needsRefresh, age); a missing file reports (true, 0).
CheckCacheAge(b, a, now) ==
    IF ~b.exists THEN [needsRefresh |-> TRUE, age |-> 0]
    ELSE [needsRefresh |-> now - b.mtime > CheckMaxAge(a), age |-> now - b.mtime]

\* A RefreshCache that leaves the cache file in place before it asks for the
\* records.
RefreshCacheKeepsFile(c, b, now, removeOk, readOk, resp, saveOk) ==
    GetAll(c, b, now, readOk, resp, saveOk)

\* RefreshCache: remove the cache file, then GetAll.  removeOk is FALSE when
\* os.Remove fails with an error other than "does not exist".
RefreshCache(c, b, now, removeOk, readOk, resp, saveOk) ==
    IF b.exists /\ ~removeOk
    THEN [c |-> c, blob |-> b, ret |-> Nil, err |-> TRUE,
          hit |-> FALSE, fetches |-> 0, requests |-> 0, wrote |-> FALSE]
    ELSE GetAll(c, NoBlob, now, readOk, resp, saveOk)

\* What the network answered to a refresh: the records of the candidate that
\* succeeded, or "fail".
Answer(resp) ==
    IF \E i \in 1..NumEndpoints : resp[i] # "fail"
    THEN resp[CHOOSE i \in 1..NumEndpoints :
                  resp[i] # "fail" /\ \A j \in 1..(i - 1) : resp[j] = "fail"]
    ELSE "fail"

\* The record of a call: the cache file and the time it found, the outcomes of
\* the file system and of the network during it, and what it returned.
NoCall ==
    [op |-> "none", a |-> "none", pre |-> NoBlob, at |-> 0,
     readOk |-> FALSE, saveOk |-> FALSE, net |-> "fail",
     hit |-> FALSE, err |-> FALSE, ret |-> Nil,
     fetches |-> 0, requests |-> 0, wrote |-> FALSE, c |-> NewClient("none")]

Observe(op, a, b, now, readOk, saveOk, resp, r) ==
    [op |-> op, a |-> a, pre |-> b, at |-> now,
     readOk |-> readOk, saveOk |-> saveOk, net |-> Answer(resp),
     hit |-> r.hit, err |-> r.err, ret |-> r.ret,
     fetches |-> r.fetches, requests |-> r.requests, wrote |-> r.wrote, c |-> r.c]

\* An Initialize that starts the Brandmeister goroutine whatever the key.
EnabledAlways(key) == Adapters

(***************************************************************************)
(* Cache warming: ClientPool.WarmCaches                                    *)
(***************************************************************************)
\* The adapters WarmCaches starts a goroutine for: the network-repeater
\* adapter only with a non-empty key.
Enabled(key) == IF key # "" THEN Adapters ELSE Adapters \ {"brandmeister"}

Skipped(a, b) ==
    [c |-> NewClient(a), blob |-> b, ret |-> Nil, err |-> FALSE,
     hit |-> FALSE, fetches |-> 0, requests |-> 0, wrote |-> FALSE]

\* One goroutine of WarmCaches: a new client, CheckCacheAge, and RefreshCache
\* when the file needs a refresh by the adapter's own threshold and its age
\* exceeds maxAge.
WarmOne(a, b, now, maxAge, removeOk, resp, saveOk) ==
    LET chk == CheckCacheAge(b, a, now) IN
    IF chk.needsRefresh /\ chk.age > maxAge
    THEN RefreshCache(NewClient(a), b, now, removeOk, TRUE, resp, saveOk)
    ELSE Skipped(a, b)

\* A collecting loop that drops what it receives.
FirstErrorDropped(errors) == Nil

\* for err := range errors: the first error received on the closed channel
\* is returned, nil when the channel is empty.
FirstError(errors) == IF errors # <<>> THEN Head(errors) ELSE Nil

WarmIdle ==
    [st |-> "idle", key |-> "", maxAge |-> 0, done |-> {},
     obs |-> [a \in Adapters |-> NoCall], errors |-> <<>>, result |-> Nil]

(***************************************************************************)
(* The client pool: ClientPool.Initialize and GetClients                   *)
(***************************************************************************)
NumCallers == 2
Callers == 1..NumCallers

\* A nil client pointer.
NilClient == NewClient(Nil)

StartupRefresh(a) ==
    CASE a = "hearham" -> HearhamStartupRefresh
      [] a = "tgif"    -> TGIFStartupRefresh

\* ShouldRefreshOnStartup: no records in memory, or older than startupRefresh.
ShouldRefreshOnStartup(c, now) ==
    c.allData = Nil \/ now - c.lastUpdate > StartupRefresh(c.a)

\* ensureData: fetch when there are no records in memory or they are older
\* than cacheTime.
ensureData(c, r, now) ==
    IF c.allData = Nil THEN fetchAllData(c, r, now)
    ELSE IF now - c.lastUpdate > CacheTime(c.a) THEN fetchAllData(c, r, now)
    ELSE [err |-> FALSE, c |-> c, requests |-> 0]

\* No ensureData-based operation yet.
NoEnsure ==
    [pc |-> "idle", a |-> "none", before |-> NewClient("none"), after |-> NewClient("none"),
     at |-> 0, file |-> NoBlob, net |-> "fail", requests |-> 0, err |-> FALSE]

\* BrandmeisterClient.Initialize: refresh unless the in-memory records are
\* valid and at most 24 hours old.
BrandmeisterInitialize(c, resp, now) ==
    IF ~c.cacheValid \/ now - c.lastUpdate > BrandmeisterCacheMaxAge
    THEN refreshData(c, resp, now)
    ELSE [err |-> FALSE, c |-> c, requests |-> 0]

\* HearhamClient.Initialize / TGIFClient.Initialize: the startup refresh, or
\* ensureData with one more fetch when it fails.
StartupInitialize(c, resp, now) ==
    IF ShouldRefreshOnStartup(c, now) THEN fetchAllData(c, resp[1], now)
    ELSE LET e == ensureData(c, resp[1], now) IN
         IF e.err THEN fetchAllData(c, resp[2], now) ELSE e

AdapterInitialize(c, resp, now) ==
    IF c.a = "brandmeister" THEN BrandmeisterInitialize(c, resp, now)
    ELSE StartupInitialize(c, resp, now)

IdleCall == [pc |-> "idle", key |-> "", waited |-> FALSE, ret |-> Nil,
             got |-> [a \in Adapters |-> NilClient]]

\* &ClientPool{}: a fresh Once and nil clients.
NewPool ==
    [once |-> "fresh", runner |-> 0, key |-> "",
     clients |-> [a \in Adapters |-> NilClient],
     tasks |-> [a \in Adapters |-> "none"],
     errors |-> <<>>,
     constructed |-> [a \in Adapters |-> 0],
     inited |-> [a \in Adapters |-> 0],
     calls |-> [k \in Callers |-> IdleCall]]

\* An Initialize whose Once lets a second caller through while the first is
\* still inside the function.
EnterInitializeNoWait(p, k, key) ==
    IF p.once = "fresh"
    THEN [p EXCEPT !.once = "running", !.runner = k, !.key = key,
                   !.tasks = [a \in Adapters |->
                                 IF a \in Enabled(key) THEN "spawned" ELSE "none"],
                   !.calls[k] = [@ EXCEPT !.pc = "inOnce", !.key = key]]
    ELSE [p EXCEPT !.calls[k] = [@ EXCEPT !.pc = "returned", !.key = key, !.ret = Nil]]

\* Initialize is entered by caller k: initOnce.Do runs the function for the
\* first caller (starting the goroutines of the enabled adapters), blocks a
\* caller that arrives while it runs, and is a no-op once it has completed, in
\* which case the caller returns its own initErr, which nothing assigned.
EnterInitialize(p, k, key) ==
    IF p.once = "fresh"
    THEN [p EXCEPT !.once = "running", !.runner = k, !.key = key,
                   !.tasks = [a \in Adapters |->
                                 IF a \in Enabled(key) THEN "spawned" ELSE "none"],
                   !.calls[k] = [@ EXCEPT !.pc = "inOnce", !.key = key]]
    ELSE IF p.once = "running"
    THEN [p EXCEPT !.calls[k] = [@ EXCEPT !.pc = "blocked", !.key = key, !.waited = TRUE]]
    ELSE [p EXCEPT !.calls[k] = [@ EXCEPT !.pc = "returned", !.key = key, !.ret = Nil]]

\* GetClients: the three client pointers as they are.
GetClients(p) == p.clients

(***************************************************************************)
(* The relational store: schema, statements and the Sync* functions        *)
(***************************************************************************)
\* The rows seeded into repeater_sources, in insertion order.
SourceNames == <<"brandmeister", "hearham", "repeaterbook", "tgif", "aprs">>

\* A NULL last_sync / total_records.
Null == -1

\* The store after NewDatabase: the schema's tables, empty but for the seeds.
NewStore ==
    [locations  |-> <<>>,
     repeaters  |-> <<>>,
     talkgroups |-> <<>>,
     sources    |-> [n \in {SourceNames[i] : i \in 1..Len(SourceNames)} |->
                        [last_sync |-> Null, total_records |-> Null]]]

\* GetSourceID: the id of the catalog row with that name.
GetSourceID(name) == CHOOSE i \in 1..Len(SourceNames) : SourceNames[i] = name

\* INSERT OR IGNORE INTO locations: UNIQUE(city, state, country) keeps one row
\* per key; a row's id is its position.
InsertOrIgnoreLocation(locs, key, lat, lon) ==
    IF \E i \in 1..Len(locs) : locs[i].key = key THEN locs
    ELSE Append(locs, [key |-> key, lat |-> lat, lon |-> lon])

\* SELECT id FROM locations WHERE city, state, country, latitude, longitude
\* all match (0: no row).
LookupLocationExact(locs, key, lat, lon) ==
    LET hits == {i \in 1..Len(locs) :
                    locs[i].key = key /\ locs[i].lat = lat /\ locs[i].lon = lon}
    IN  IF hits = {} THEN 0 ELSE CHOOSE i \in hits : TRUE

\* SELECT id FROM locations WHERE city, state, country match (0: no row).
LookupLocationByKey(locs, key) ==
    LET hits == {i \in 1..Len(locs) : locs[i].key = key}
    IN  IF hits = {} THEN 0 ELSE CHOOSE i \in hits : TRUE

\* A plain INSERT INTO repeaters that ignores the uniqueness constraint.
InsertRepeaterNoReplace(rows, row) == Append(rows, row)

\* An upsert whose conflict key is the callsign alone.
UpsertRepeaterByCallsign(rows, row) ==
    LET Keep(r) == r.callsign # row.callsign
    IN  Append(SelectSeq(rows, Keep), row)

\* INSERT OR REPLACE INTO repeaters: the row that conflicts on
\* UNIQUE(source_id, external_id) is deleted and the new row inserted; the
\* columns the statement does not name (created_at, updated_at) take their
\* default, the current time.
UpsertRepeater(rows, row) ==
    LET Keep(r) == ~(r.source_id = row.source_id /\ r.external_id = row.external_id)
    IN  Append(SelectSeq(rows, Keep), row)

\* INSERT OR REPLACE INTO talkgroups, UNIQUE(talkgroup_id, network).
UpsertTalkgroup(rows, row) ==
    LET Keep(r) == ~(r.talkgroup_id = row.talkgroup_id /\ r.network = row.network)
    IN  Append(SelectSeq(rows, Keep), row)

\* strconv.Atoi on a talkgroup id: the decimal strings parse, the rest fail.
Atoi(str) ==
    CASE str = "1" -> [ok |-> TRUE, n |-> 1]
      [] str = "2" -> [ok |-> TRUE, n |-> 2]
      [] OTHER     -> [ok |-> FALSE, n |-> 0]

\* The external_id column is TEXT: the integer id of a network-repeater
\* record is stored as its decimal text.
IntToText(n) ==
    CASE n = 1 -> "1"
      [] n = 2 -> "2"
      [] n = 3 -> "3"

\* UPDATE repeater_sources SET last_sync, total_records WHERE source_name.
UpdateSource(w, name, now, n) ==
    [w EXCEPT !.sources[name] = [last_sync |-> now, total_records |-> n]]

\* One iteration of SyncBrandmeisterData's loop (the version that resolves
\* locations in the transaction, with a per-call location cache).  locOk and
\* stmtOk are the outcomes of the location insert and of the repeater upsert.
BrandmeisterRecord(w, cache, rep, now, locOk, stmtOk) ==
    LET ck       == <<rep.key, rep.lat, rep.lon>>
        cached   == ck \in DOMAIN cache
        resolve  == ~cached /\ (rep.key # "" \/ rep.lat # 0 \/ rep.lon # 0) /\ locOk
        locs     == IF resolve
                    THEN InsertOrIgnoreLocation(w.locations, rep.key, rep.lat, rep.lon)
                    ELSE w.locations
        found    == IF resolve THEN LookupLocationExact(locs, rep.key, rep.lat, rep.lon)
                    ELSE 0
        locID    == IF cached THEN cache[ck] ELSE found
        row      == [callsign |-> rep.callsign, source_id |-> GetSourceID("brandmeister"),
                     external_id |-> IntToText(rep.id), location_id |-> locID,
                     val |-> rep.val, last_api_sync |-> now,
                     created_at |-> now, updated_at |-> now]
    IN  [w       |-> [w EXCEPT !.locations = locs,
                               !.repeaters = IF stmtOk THEN UpsertRepeater(@, row) ELSE @],
         cache   |-> IF found # 0 THEN (ck :> found) @@ cache ELSE cache,
         applied |-> stmtOk]

\* An iteration of SyncHearhamData's loop that takes the record's own id as
\* the external id.
HearhamRecordByNativeId(w, cache, rep, now, locOk, stmtOk) ==
    IF ~locOk THEN [w |-> w, cache |-> cache, applied |-> FALSE]
    ELSE LET locs == InsertOrIgnoreLocation(w.locations, rep.city, 0, 0)
             row  == [callsign |-> rep.callsign, source_id |-> GetSourceID("hearham"),
                      external_id |-> IntToText(rep.id),
                      location_id |-> LookupLocationByKey(locs, rep.city),
                      val |-> rep.val, last_api_sync |-> now,
                     created_at |-> now, updated_at |-> now]
         IN  [w       |-> [w EXCEPT !.locations = locs,
                                    !.repeaters = IF stmtOk THEN UpsertRepeater(@, row)
                                                  ELSE @],
              cache   |-> cache,
              applied |-> stmtOk]

\* One iteration of SyncHearhamData's loop: a failed location insert skips
\* the record; the callsign is the external id.
HearhamRecord(w, cache, rep, now, locOk, stmtOk) ==
    IF ~locOk THEN [w |-> w, cache |-> cache, applied |-> FALSE]
    ELSE LET locs == InsertOrIgnoreLocation(w.locations, rep.city, 0, 0)
             row  == [callsign |-> rep.callsign, source_id |-> GetSourceID("hearham"),
                      external_id |-> rep.callsign,
                      location_id |-> LookupLocationByKey(locs, rep.city),
                      val |-> rep.val, last_api_sync |-> now,
                     created_at |-> now, updated_at |-> now]
         IN  [w       |-> [w EXCEPT !.locations = locs,
                                    !.repeaters = IF stmtOk THEN UpsertRepeater(@, row)
                                                  ELSE @],
              cache   |-> cache,
              applied |-> stmtOk]

\* An iteration of SyncTGIFData's loop that goes on with the zero Atoi returns
\* for an id that is no integer.
TGIFRecordKeepsUnparsed(w, cache, tg, now, locOk, stmtOk) ==
    LET id == Atoi(tg.id) IN
    IF ~stmtOk THEN [w |-> w, cache |-> cache, applied |-> FALSE]
    ELSE [w       |-> [w EXCEPT !.talkgroups =
                          UpsertTalkgroup(@, [talkgroup_id |-> id.n, network |-> "tgif",
                                              name |-> tg.name])],
          cache   |-> cache,
          applied |-> id.ok]

\* One iteration of SyncTGIFData's loop: an id that is no integer skips the
\* record.
TGIFRecord(w, cache, tg, now, locOk, stmtOk) ==
    LET id == Atoi(tg.id) IN
    IF ~id.ok \/ ~stmtOk THEN [w |-> w, cache |-> cache, applied |-> FALSE]
    ELSE [w       |-> [w EXCEPT !.talkgroups =
                          UpsertTalkgroup(@, [talkgroup_id |-> id.n, network |-> "tgif",
                                              name |-> tg.name])],
          cache   |-> cache,
          applied |-> TRUE]

SyncRecordStep(src, w, cache, rec, now, locOk, stmtOk) ==
    CASE src = "brandmeister" -> BrandmeisterRecord(w, cache, rec, now, locOk, stmtOk)
      [] src = "hearham"      -> HearhamRecord(w, cache, rec, now, locOk, stmtOk)
      [] src = "tgif"         -> TGIFRecord(w, cache, rec, now, locOk, stmtOk)

\* A rollback that leaves the transaction's writes in the store.
RollbackKeepsWrites(pre, w) == w

\* tx.Rollback (deferred): the store is what it was when the transaction began.
Rollback(pre, w) == pre

\* The statements after the loop: the catalog update (not issued by
\* SyncTGIFData) and tx.Commit.  outcome names the statement that fails, if any.
SyncEnd(src, pre, w, n, now, outcome) ==
    IF outcome = "catalogFail" \/ outcome = "commitFail"
    THEN [store |-> Rollback(pre, w), ret |-> "error"]
    ELSE [store |-> IF src = "tgif" THEN w ELSE UpdateSource(w, src, now, n),
          ret   |-> Nil]

\* The batches a sync is called with.
MaxBatch == 2

BrandmeisterRecords ==
    {[id |-> 1, callsign |-> "A", key |-> "c1", lat |-> 1, lon |-> 1, val |-> "x"],
     [id |-> 1, callsign |-> "A", key |-> "", lat |-> 0, lon |-> 0, val |-> "y"],
     [id |-> 2, callsign |-> "B", key |-> "c1", lat |-> 2, lon |-> 2, val |-> "x"]}

HearhamRecords ==
    {[id |-> 1, callsign |-> "A", city |-> "c1", val |-> "x"],
     [id |-> 2, callsign |-> "A", city |-> "c2", val |-> "y"],
     [id |-> 3, callsign |-> "B", city |-> "c1", val |-> "x"]}

TGIFRecords ==
    {[id |-> "1", name |-> "n1"], [id |-> "x", name |-> "n2"]}

SyncSources == {"brandmeister", "tgif", "hearham"}

Records(src) ==
    CASE src = "brandmeister" -> BrandmeisterRecords
      [] src = "hearham"      -> HearhamRecords
      [] src = "tgif"         -> TGIFRecords

Batches(src) == UNION {[1..n -> Records(src)] : n \in 0..MaxBatch}

\* The goroutines (or successive runs) that call a Sync* function.
Tasks == {"t1", "t2"}

\* No task: the connection is free.
NoTask == "none"

IdleTask ==
    [pc |-> "idle", src |-> "none", batch |-> <<>>, i |-> 0,
     pre |-> NewStore, w |-> NewStore, cache |-> <<>>, applied |-> {}]

DoneTask == [IdleTask EXCEPT !.pc = "returned"]

NoSync ==
    [src |-> "none", batch |-> <<>>, applied |-> {}, pre |-> NewStore, w |-> NewStore,
     ret |-> Nil, at |-> 0]

(***************************************************************************)
(* Database.UpsertLocation, statement by statement                         *)
(***************************************************************************)
\* The (city, state, country) keys and the (latitude, longitude) pairs the
\* calls are made with.
LocationKeys == {"c1", "c2"}

Coordinates == {<<0, 0>>, <<1, 0>>, <<2, 2>>}

\* A plain INSERT that is not stopped by UNIQUE(city, state, country).
InsertLocationNoUnique(locs, key, lat, lon, ok) ==
    IF ~ok THEN [locs |-> locs, id |-> 0, err |-> TRUE, why |-> "stmt"]
    ELSE [locs |-> Append(locs, [key |-> key, lat |-> lat, lon |-> lon]),
          id |-> Len(locs) + 1, err |-> FALSE, why |-> ""]

\* INSERT INTO locations (city, state, country, latitude, longitude): fails
\* on a row with the same key; LastInsertId is the new row's id.
InsertLocation(locs, key, lat, lon, ok) ==
    IF ~ok THEN [locs |-> locs, id |-> 0, err |-> TRUE, why |-> "stmt"]
    ELSE IF \E i \in 1..Len(locs) : locs[i].key = key
    THEN [locs |-> locs, id |-> 0, err |-> TRUE, why |-> "unique"]
    ELSE [locs |-> Append(locs, [key |-> key, lat |-> lat, lon |-> lon]),
          id |-> Len(locs) + 1, err |-> FALSE, why |-> ""]

\* UPDATE locations SET latitude = ?, longitude = ?
\* WHERE id = ? AND (latitude = 0 OR longitude = 0 OR ? != 0 AND ? != 0).
UpdateLocation(locs, id, lat, lon) ==
    IF locs[id].lat = 0 \/ locs[id].lon = 0 \/ (lat # 0 /\ lon # 0)
    THEN [locs EXCEPT ![id] = [@ EXCEPT !.lat = lat, !.lon = lon]]
    ELSE locs

NoUpsert ==
    [pc |-> "idle", key |-> "", lat |-> 0, lon |-> 0, id |-> 0, err |-> FALSE,
     via |-> "", why |-> "", old |-> <<0, 0>>, new |-> <<0, 0>>]

(***************************************************************************)
(* The sync entry points: cache files, decoders, per-source progress       *)
(***************************************************************************)
\* The sources in the order processSequential takes them.
FastSources == <<"Brandmeister", "TGIF", "hearham">>

SourceSet == {FastSources[i] : i \in 1..Len(FastSources)}

IndexOf(s) == CHOOSE i \in 1..Len(FastSources) : FastSources[i] = s

\* A cache file: ok is FALSE when it cannot be opened or its top level is no
\* JSON array; elems are the array's elements, "bad" one that does not decode
\* into the record type.
NoFile == [ok |-> FALSE, elems |-> <<>>]

CacheFiles ==
    {NoFile,
     [ok |-> TRUE, elems |-> <<"a", "b", "c">>],
     [ok |-> TRUE, elems |-> <<"a", "bad", "b">>]}

ChunkSizes == {1, 2}

Malformed(e) == e = "bad"

\* The elements that decode, in input order.
ValidRecords(elems) == SelectSeq(elems, LAMBDA e : ~Malformed(e))

\* readBrandmeisterCache / readTGIFCache / readHearhamCache and their
\* ...Optimized variants: the file is decoded into a slice in one
\* json.Unmarshal (decoder.Decode); the decoding error of any element is the
\* error of the call.
readCache(f) ==
    IF ~f.ok THEN [err |-> TRUE, data |-> <<>>, count |-> 0]
    ELSE IF \E i \in 1..Len(f.elems) : Malformed(f.elems[i])
    THEN [err |-> TRUE, data |-> <<>>, count |-> 0]
    ELSE [err |-> FALSE, data |-> f.elems, count |-> Len(f.elems)]

\* A source before anything was done for it.
IdleSource ==
    [st |-> "Idle", data |-> <<>>, count |-> 0, pos |-> 0, buf |-> <<>>,
     handed |-> <<>>, read |-> 0, synced |-> 0, err |-> FALSE,
     opened |-> FALSE, final |-> FALSE,
     oks |-> <<>>, catalog |-> Null, stored |-> <<>>]

NoRun ==
    [strategy |-> "none", chunkSize |-> 0, files |-> [s \in SourceSet |-> NoFile],
     exit |-> "init", fatal |-> "", phase |-> "read",
     src |-> [s \in SourceSet |-> IdleSource], lines |-> {}, total |-> 0]

\* The records of the sources whose read succeeded, summed over the sources
\* from the i-th on (the collection loop's totalRecords).
RECURSIVE SumFetched(_, _)
SumFetched(src, i) ==
    IF i > Len(FastSources) THEN 0
    ELSE (IF src[FastSources[i]].st = "Fetched" THEN src[FastSources[i]].count ELSE 0)
         + SumFetched(src, i + 1)

\* A catalog whose total_records adds up the calls' lengths.
CatalogAccumulates(s, total, n) == (IF total = Null THEN 0 ELSE total) + n

\* UPDATE repeater_sources SET last_sync = ?, total_records = ? with
\* len(repeaters), at the end of SyncBrandmeisterData and SyncHearhamData;
\* SyncTGIFData has no such statement.
CatalogAfterSync(s, total, n) == IF s = "TGIF" THEN total ELSE n

\* One db.SyncXData call on the records of source s, as the source's part of
\* the store sees it: the call's transaction commits the records and the
\* catalog update, or is rolled back.
Committed(f, s, records, ok) ==
    [f EXCEPT !.src[s].oks = Append(@, ok),
              !.src[s].catalog = IF ok THEN CatalogAfterSync(s, @, Len(records)) ELSE @,
              !.src[s].stored = IF ok THEN @ \o records ELSE Rollback(@, @ \o records)]

\* The states in which nothing more is done for a source.
Terminal(st) == st \in {"FetchFailed", "SyncFailed", "Synced"}

(***************************************************************************)
(* The flexible fields of the position service's stations                  *)
(***************************************************************************)
\* JSON values of a field: numbers, given in tenths (70 is 7, 25 is 2.5), and
\* strings.
JSONValues ==
    {[kind |-> "number", tenths |-> 70, text |-> ""],
     [kind |-> "number", tenths |-> 25, text |-> ""],
     [kind |-> "string", tenths |-> 0, text |-> "7"],
     [kind |-> "string", tenths |-> 0, text |-> "2.5"],
     [kind |-> "string", tenths |-> 0, text |-> ""],
     [kind |-> "string", tenths |-> 0, text |-> "abc"]}

\* json.Unmarshal into an int / int64: a JSON number without fraction.
UnmarshalInteger(v) ==
    IF v.kind = "number" /\ v.tenths % 10 = 0
    THEN [err |-> FALSE, value |-> v.tenths \div 10]
    ELSE [err |-> TRUE, value |-> 0]

\* json.Unmarshal into a float64: any JSON number (the value in tenths).
UnmarshalFloat(v) ==
    IF v.kind = "number" THEN [err |-> FALSE, value |-> v.tenths]
    ELSE [err |-> TRUE, value |-> 0]

\* strconv.ParseInt / strconv.Atoi on the strings used here.
ParseInt(text) ==
    IF text = "7" THEN [err |-> FALSE, value |-> 7] ELSE [err |-> TRUE, value |-> 0]

\* strconv.ParseFloat on the strings used here (the value in tenths).
ParseFloat(text) ==
    CASE text = "7"   -> [err |-> FALSE, value |-> 70]
      [] text = "2.5" -> [err |-> FALSE, value |-> 25]
      [] OTHER        -> [err |-> TRUE, value |-> 0]

\* FlexibleInt.UnmarshalJSON, and FlexibleTime.UnmarshalJSON with int64: the
\* value as an integer; failing that the value as a string, an empty or
\* unparsable string giving 0; the error of the string decoding is returned.
FlexibleIntUnmarshal(v) ==
    IF ~UnmarshalInteger(v).err THEN UnmarshalInteger(v)
    ELSE IF v.kind # "string" THEN [err |-> TRUE, value |-> 0]
    ELSE IF v.text = "" THEN [err |-> FALSE, value |-> 0]
    ELSE [err |-> FALSE, value |-> ParseInt(v.text).value]

FlexibleTimeUnmarshal(v) == FlexibleIntUnmarshal(v)

\* FlexibleFloat.UnmarshalJSON.
FlexibleFloatUnmarshal(v) ==
    IF ~UnmarshalFloat(v).err THEN UnmarshalFloat(v)
    ELSE IF v.kind # "string" THEN [err |-> TRUE, value |-> 0]
    ELSE IF v.text = "" THEN [err |-> FALSE, value |-> 0]
    ELSE [err |-> FALSE, value |-> ParseFloat(v.text).value]

\* The flexible fields of a station taken here: one of each type.
StationFields == {"time", "lat", "course"}

\* Decoding a response with one station: the error of a field's UnmarshalJSON
\* is the error of the whole decoding.
DecodeStation(json) ==
    LET t == FlexibleTimeUnmarshal(json["time"])
        l == FlexibleFloatUnmarshal(json["lat"])
        c == FlexibleIntUnmarshal(json["course"])
    IN  IF t.err \/ l.err \/ c.err
        THEN [err |-> TRUE, time |-> 0, lat |-> 0, course |-> 0]
        ELSE [err |-> FALSE, time |-> t.value, lat |-> l.value, course |-> c.value]

NoStation ==
    [pc |-> "none", json |-> [f \in StationFields |-> [kind |-> "string", tenths |-> 0, text |-> ""]],
     err |-> FALSE, time |-> 0, lat |-> 0, course |-> 0]

(***************************************************************************)
(* The search by frequency                                                 *)
(***************************************************************************)
\* Rows of the repeaters table as the query sees them: the id and
\* tx_frequency, a nullable column, in units of 10 kHz (14652 is 146.52 MHz).
\* Two of the rows are equally far from 146.52 MHz.
FrequencyRows ==
    { [id |-> 1, valid |-> TRUE,  tx |-> 14400],
      [id |-> 2, valid |-> TRUE,  tx |-> 14652],
      [id |-> 3, valid |-> TRUE,  tx |-> 14850],
      [id |-> 4, valid |-> TRUE,  tx |-> 14600],
      [id |-> 5, valid |-> TRUE,  tx |-> 14704],
      [id |-> 6, valid |-> FALSE, tx |-> 0] }

\* The arguments the call is made with.
Frequencies == {14652, 14500}
Ranges == {0, 100, 252}
Limits == {0, 1, 2, 5}

Abs(x) == IF x < 0 THEN -x ELSE x

\* WHERE r.tx_frequency BETWEEN ? AND ?: a NULL frequency matches nothing.
Matching(table, lo, hi) == {row \in table : row.valid /\ lo <= row.tx /\ row.tx <= hi}

\* ORDER BY ABS(r.tx_frequency - ?) ASC: the orders the matching rows may
\* come in; rows equally far from the frequency come in either order.
Orderings(rows, f) ==
    { q \in [1..Cardinality(rows) -> rows] :
         /\ \A i, j \in DOMAIN q : i # j => q[i] # q[j]
         /\ \A i, j \in DOMAIN q : i < j => Abs(q[i].tx - f) <= Abs(q[j].tx - f) }

\* LIMIT ?
Limit(q, limit) == SubSeq(q, 1, IF limit < Len(q) THEN limit ELSE Len(q))

\* The scanning loop of the first definition: each row scanned is appended to
\* the result, and appended again.
RECURSIVE ScanFirst(_)
ScanFirst(q) ==
    IF q = <<>> THEN <<>> ELSE <<Head(q), Head(q)>> \o ScanFirst(Tail(q))

\* The scanning loop of the second definition: each row is appended once.
ScanSecond(q) == q

\* GetRepeatersByFrequency on the rows the query returned.
GetRepeatersByFrequency(def, q) ==
    IF def = "first" THEN ScanFirst(q) ELSE ScanSecond(q)

NoLookup ==
    [def |-> "none", table |-> {}, f |-> 0, r |-> 0, limit |-> 0,
     pc |-> "idle", err |-> FALSE, result |-> <<>>]

(***************************************************************************)
(* Workers, their channel and the collecting loop                          *)
(***************************************************************************)
\* The functions that start one goroutine per source and collect what the
\* goroutines send.
FanFunctions == {"Initialize", "WarmCaches", "processParallel", "processParallelStreaming"}

\* Initialize and WarmCaches call wg.Wait() and close the channel themselves
\* before they range over it; the two strategies leave that to a goroutine and
\* range over the channel meanwhile.
WaitsInline(kind) == kind \in {"Initialize", "WarmCaches"}

\* The goroutines of the strategies send a result whatever the outcome; those
\* of Initialize and WarmCaches send only an error.
SendsAlways(kind) == kind \in {"processParallel", "processParallelStreaming"}

\* A channel without a buffer.
ChannelUnbuffered(kind, phase, n) == 0

\* make(chan ..., 3), and make(chan CacheResult, len(results)) for the sync
\* phase of processParallel.
ChannelCapacity(kind, phase, n) ==
    IF kind = "processParallel" /\ phase = 2 THEN n ELSE Len(FastSources)

NoFan ==
    [kind |-> "none", workers |-> {}, fails |-> {}, fails2 |-> {},
     w |-> [s \in SourceSet |-> "none"], chan |-> <<>>, cap |-> 0, closed |-> FALSE,
     phase |-> 1, kept |-> {}, pc |-> "idle", ret |-> Nil]

(***************************************************************************)
(* Actions of the cache specification                                      *)
(***************************************************************************)
\* Answers of the candidate endpoints to one refresh.  Only the
\* network-repeater adapter asks more than the first, and no adapter asks a
\* candidate after one has answered, so those answers are left at "fail".
Responses(a) ==
    IF a = "brandmeister"
    THEN {resp \in [1..NumEndpoints -> NetOutcomes] :
            \A i, j \in 1..NumEndpoints : (i < j /\ resp[i] # "fail") => resp[j] = "fail"}
    ELSE {[i \in 1..NumEndpoints |-> IF i = 1 THEN r ELSE "fail"] : r \in NetOutcomes}

\* Time passes to the next sampled instant.
Tick ==
    /\ ti <= MaxTicks
    /\ ti < Len(TimePoints)
    /\ ti' = ti + 1
    /\ UNCHANGED <<ensure, fan, lookup, refresh, aprs, fast, upsert, build, store, conn, sync, lastSync, pool, focus, blob, last, warm>>

\* A program creates the adapter's client and asks it for all records
\* (cmd/test_cache: NewXClient followed by GetAllRepeaters / GetAllTalkgroups).
GetAllCall(a) ==
    \E readOk \in BOOLEAN, resp \in Responses(a), saveOk \in BOOLEAN :
        LET r == GetAll(NewClient(a), blob[a], Now, readOk, resp, saveOk) IN
        /\ blob' = [blob EXCEPT ![a] = r.blob]
        /\ last' = Observe("GetAll", a, blob[a], Now, readOk, saveOk, resp, r)
        /\ UNCHANGED <<ensure, fan, lookup, refresh, aprs, fast, upsert, build, store, conn, sync, lastSync, pool, focus, ti, warm>>

\* A program creates the adapter's client and forces a refresh.
RefreshCacheCall(a) ==
    \E removeOk \in BOOLEAN, resp \in Responses(a), saveOk \in BOOLEAN :
        LET r == RefreshCache(NewClient(a), blob[a], Now, removeOk, TRUE, resp, saveOk) IN
        /\ blob' = [blob EXCEPT ![a] = r.blob]
        /\ last' = Observe("Refresh", a, blob[a], Now, TRUE, saveOk, resp, r)
        /\ UNCHANGED <<ensure, fan, lookup, refresh, aprs, fast, upsert, build, store, conn, sync, lastSync, pool, focus, ti, warm>>

\* A run of a program that works with one adapter's client, as each of the
\* per-adapter mains does; the cache directory starts empty.
InitCache ==
    /\ focus \in Adapters
    /\ ti = 1
    /\ blob = [a \in Adapters |-> NoBlob]
    /\ last = NoCall
    /\ warm = WarmIdle
    /\ pool = NewPool
    /\ build = "v1"
    /\ store = NewStore
    /\ conn = NoTask
    /\ sync = [k \in Tasks |-> IdleTask]
    /\ lastSync = NoSync
    /\ upsert = [k \in Tasks |-> NoUpsert]
    /\ fast = NoRun
    /\ aprs = NoStation
    /\ refresh = NoRefresh
    /\ lookup = NoLookup
    /\ fan = NoFan
    /\ ensure = NoEnsure

NextCache ==
    \/ Tick
    \/ GetAllCall(focus)
    \/ RefreshCacheCall(focus)

SpecCache == InitCache /\ [][NextCache]_vars

(***************************************************************************)
(* Properties of the file cache                                            *)
(***************************************************************************)
\* The age the last call found on the cache file.
PreAge == last.at - last.pre.mtime

\* What loadFromCache lets through: a file that exists, is not older than the
\* ceiling the load compares with, and can be read and parsed.
Loadable == last.pre.exists /\ PreAge <= LoadMaxAge(last.a) /\ last.readOk

\* C6: GetAllRepeaters / GetAllTalkgroups is read-through.  On a hit it makes
\* no network request and returns the cached records, leaving the file alone;
\* on a miss it performs exactly one fetch, returns the fetched records and
\* writes them to the cache file with the current time (the write itself
\* succeeding); when the fetch fails it returns an error and the cache file is
\* as it was before the call.
C6_GetAllReadThrough ==
    last.op = "GetAll" =>
        /\ Loadable =>
              /\ last.hit /\ ~last.err
              /\ last.fetches = 0 /\ last.requests = 0
              /\ last.ret = last.pre.data
              /\ blob[last.a] = last.pre
        /\ ~Loadable =>
              /\ ~last.hit
              /\ last.fetches = 1 /\ last.requests >= 1
        /\ (~Loadable /\ last.net # "fail") =>
              /\ ~last.err
              /\ last.ret = last.net
              /\ last.saveOk =>
                    blob[last.a] = [exists |-> TRUE, mtime |-> last.at, data |-> last.net]
        /\ (~Loadable /\ last.net = "fail") =>
              /\ last.err /\ last.ret = Nil
              /\ ~last.wrote
              /\ blob[last.a] = last.pre

\* C6 witness: a call found a stale file holding other records, fetched once
\* and replaced the file with what it fetched.
C6_Witness ==
    /\ last.op = "GetAll" /\ last.pre.exists /\ ~last.hit /\ ~last.err
    /\ last.net # last.pre.data
    /\ last.fetches = 1 /\ last.ret = last.net
    /\ blob[last.a] = [exists |-> TRUE, mtime |-> last.at, data |-> last.net]

\* C7 as stated: loadFromCache of a readable file is a hit exactly when the
\* file exists and its age is strictly below the ceiling, so that an age equal
\* to the ceiling is a miss.
C7_HitIffAgeBelowCeiling ==
    (last.op = "GetAll" /\ last.readOk) =>
        (last.hit <=> (last.pre.exists /\ PreAge < LoadMaxAge(last.a)))

\* C7 amended: loadFromCache is a hit exactly when the file exists, can be
\* read and parsed, and its age is at most the ceiling the load compares with;
\* only an age strictly above the ceiling is too old.
C7_HitIffAgeAtMostCeiling ==
    last.op = "GetAll" =>
        (last.hit <=> (last.pre.exists /\ last.readOk /\ PreAge <= LoadMaxAge(last.a)))

\* C7 witness: a call found a file whose age equals the ceiling and was a hit.
C7_Witness ==
    /\ last.op = "GetAll" /\ last.pre.exists
    /\ PreAge = LoadMaxAge(last.a)
    /\ last.hit /\ last.ret = last.pre.data

\* C12 as stated: RefreshCache removes the cache file so that the load it
\* triggers misses, and whenever it returns nil the file exists again, carries
\* the time of the call and holds exactly the records of the fetch.
C12_RefreshNilMeansFreshFile ==
    last.op = "Refresh" =>
        /\ ~last.hit
        /\ ~last.err =>
              /\ last.fetches = 1
              /\ blob[last.a] = [exists |-> TRUE, mtime |-> last.at, data |-> last.net]

\* C12 amended: RefreshCache never answers from the cache file; when it
\* returns nil it performed one fetch that succeeded, and
\* the file holds exactly the fetched records with the time of the call if
\* the write succeeded and is absent if the write failed (a failed write is
\* only logged).  When the fetch fails the error is returned and the file
\* stays removed.
C12_RefreshNilMeansFetched ==
    last.op = "Refresh" =>
        /\ ~last.hit
        /\ ~last.err =>
              /\ last.fetches = 1 /\ last.net # "fail" /\ last.ret = last.net
              /\ last.saveOk =>
                    blob[last.a] = [exists |-> TRUE, mtime |-> last.at, data |-> last.net]
              /\ ~last.saveOk => blob[last.a] = NoBlob
        /\ (last.err /\ last.fetches = 1) =>
              /\ last.net = "fail"
              /\ blob[last.a] = NoBlob
        /\ (last.err /\ last.fetches = 0) => blob[last.a] = last.pre

\* C12 witness: RefreshCache found a file young enough to be loaded, holding
\* other records than the network's, and replaced it with the fetched records.
C12_Witness ==
    /\ last.op = "Refresh" /\ ~last.err
    /\ last.pre.exists /\ PreAge <= LoadMaxAge(last.a)
    /\ last.pre.data # last.net
    /\ last.fetches = 1
    /\ blob[last.a] = [exists |-> TRUE, mtime |-> last.at, data |-> last.net]

\* C13: a cache file that is missing or cannot be read or parsed is a cache
\* miss: the call goes on to one network fetch, and it fails only when that
\* fetch fails.  A cache file that cannot be written after a successful fetch
\* does not fail the call: it returns the fetched records and the file is as
\* it was.
C13_FileFailuresAreNotErrors ==
    last.op = "GetAll" =>
        /\ (~last.pre.exists \/ ~last.readOk) =>
              /\ ~last.hit /\ last.fetches = 1
              /\ last.err <=> last.net = "fail"
              /\ ~last.err => last.ret = last.net
        /\ (~last.hit /\ last.net # "fail" /\ ~last.saveOk) =>
              /\ ~last.err /\ last.ret = last.net
              /\ ~last.wrote /\ blob[last.a] = last.pre

\* C13 witness: a call found a young cache file it could not read, fetched
\* the records, could not write the file and still returned the records.
C13_Witness ==
    /\ last.op = "GetAll"
    /\ last.pre.exists /\ PreAge <= LoadMaxAge(last.a) /\ ~last.readOk
    /\ ~last.saveOk /\ last.net # "fail"
    /\ ~last.err /\ last.ret = last.net /\ last.fetches = 1
    /\ blob[last.a] = last.pre

\* C8: the ceiling applied when a cache file is loaded is the adapter's
\* absolute ceiling (cacheTime): a readable file younger than it is a hit.
C8_LoadUsesAbsoluteCeiling ==
    (last.op = "GetAll" /\ last.readOk /\ last.pre.exists /\ PreAge < CacheTime(last.a))
        => last.hit

(***************************************************************************)
(* The cache-warming program (cmd/warm_cache): one WarmCaches call over    *)
(* the cache files earlier runs left behind                                *)
(***************************************************************************)
Keys == {"", "k"}
MaxAges == {1, 6}

\* WarmCaches is entered: the goroutines of the enabled adapters are started.
WarmStart ==
    /\ warm.st = "idle"
    /\ \E key \in Keys, maxAge \in MaxAges :
           warm' = [warm EXCEPT !.st = "running", !.key = key, !.maxAge = maxAge]
    /\ UNCHANGED <<ensure, fan, lookup, refresh, aprs, fast, upsert, build, store, conn, sync, lastSync, pool, focus, ti, blob, last>>

\* The file-system and network outcomes a goroutine can meet; they matter
\* only when it refreshes.
WarmInputs(a) ==
    LET chk == CheckCacheAge(blob[a], a, Now) IN
    IF chk.needsRefresh /\ chk.age > warm.maxAge
    THEN BOOLEAN \X Responses(a) \X BOOLEAN
    ELSE {<<TRUE, [i \in 1..NumEndpoints |-> "fail"], TRUE>>}

\* The goroutine of adapter a runs to its end; a failed refresh puts its
\* error on the channel.
WarmTask(a) ==
    /\ warm.st = "running"
    /\ a \in Enabled(warm.key) \ warm.done
    /\ \E in \in WarmInputs(a) :
           LET r == WarmOne(a, blob[a], Now, warm.maxAge, in[1], in[2], in[3]) IN
           /\ blob' = [blob EXCEPT ![a] = r.blob]
           /\ warm' = [warm EXCEPT
                         !.done = @ \cup {a},
                         !.obs[a] = Observe("Warm", a, blob[a], Now, TRUE, in[3], in[2], r),
                         !.errors = IF r.err THEN Append(@, a) ELSE @]
    /\ UNCHANGED <<ensure, fan, lookup, refresh, aprs, fast, upsert, build, store, conn, sync, lastSync, pool, focus, ti, last>>

\* wg.Wait, close, and the first error on the channel (or nil) is returned.
WarmReturn ==
    /\ warm.st = "running"
    /\ warm.done = Enabled(warm.key)
    /\ warm' = [warm EXCEPT !.st = "returned",
                            !.result = FirstError(warm.errors)]
    /\ UNCHANGED <<ensure, fan, lookup, refresh, aprs, fast, upsert, build, store, conn, sync, lastSync, pool, focus, ti, blob, last>>

\* Time passes before the program is run.
WarmTick == warm.st = "idle" /\ Tick

\* Cache files written at the first instant by earlier runs, or absent.
OldBlobs == {NoBlob} \cup {[exists |-> TRUE, mtime |-> TimePoints[1], data |-> d] : d \in {"p1"}}

InitWarm ==
    /\ focus = Nil
    /\ ti = 1
    /\ blob \in [Adapters -> OldBlobs]
    /\ last = NoCall
    /\ warm = WarmIdle
    /\ pool = NewPool
    /\ build = "v1"
    /\ store = NewStore
    /\ conn = NoTask
    /\ sync = [k \in Tasks |-> IdleTask]
    /\ lastSync = NoSync
    /\ upsert = [k \in Tasks |-> NoUpsert]
    /\ fast = NoRun
    /\ aprs = NoStation
    /\ refresh = NoRefresh
    /\ lookup = NoLookup
    /\ fan = NoFan
    /\ ensure = NoEnsure

NextWarm ==
    \/ WarmTick
    \/ WarmStart
    \/ \E a \in Adapters : WarmTask(a)
    \/ WarmReturn

SpecWarm == InitWarm /\ [][NextWarm]_vars

(***************************************************************************)
(* Properties of cache warming                                             *)
(***************************************************************************)
\* The age the goroutine of adapter a found on the cache file.
WarmAge(a) == warm.obs[a].at - warm.obs[a].pre.mtime

\* C9: WarmCaches(maxAge) refreshes an adapter's cache file whenever its age
\* exceeds maxAge, whatever maxAge and whichever adapter, and leaves a file
\* whose age is at most maxAge untouched.
C9_WarmRefreshesOlderThanMaxAge ==
    \A a \in warm.done :
        LET o == warm.obs[a] IN
        /\ (o.pre.exists /\ WarmAge(a) > warm.maxAge) => o.fetches = 1
        /\ (o.pre.exists /\ WarmAge(a) <= warm.maxAge) =>
               (o.fetches = 0 /\ blob[a] = o.pre)

\* C11: WarmCaches runs the warm attempt of every enabled adapter whether or
\* not another adapter's attempt failed and returns only when all of them are
\* done; it returns an error exactly when at least one adapter's refresh
\* failed, and the error is that of one of the adapters whose refresh failed.
C11_WarmAggregatesErrors ==
    /\ \A i \in 1..Len(warm.errors) :
          warm.errors[i] \in warm.done /\ warm.obs[warm.errors[i]].err
    /\ warm.st = "returned" =>
          /\ warm.done = Enabled(warm.key)
          /\ \A a \in warm.done : warm.obs[a].op = "Warm"
          /\ (warm.result # Nil) <=> (\E a \in warm.done : warm.obs[a].err)
          /\ warm.result # Nil => (warm.result \in warm.done /\ warm.obs[warm.result].err)

\* C11 witness: WarmCaches returned the error of an adapter whose refresh
\* failed while another adapter's refresh was carried out and wrote its file.
C11_Witness ==
    /\ warm.st = "returned" /\ warm.result # Nil
    /\ warm.obs[warm.result].err
    /\ \E a \in warm.done :
          /\ a # warm.result
          /\ warm.obs[a].fetches = 1 /\ ~warm.obs[a].err /\ warm.obs[a].wrote
          /\ blob[a].exists /\ blob[a].mtime = warm.obs[a].at

\* C10: an adapter whose cache file does not exist is fetched by WarmCaches and
\* its file created: when WarmCaches has returned nil, and no write of a cache
\* file failed, every enabled adapter has a cache file.
C10_WarmCreatesMissingCaches ==
    (/\ warm.st = "returned" /\ warm.result = Nil
     /\ \A a \in warm.done : warm.obs[a].saveOk)
        => \A a \in Enabled(warm.key) : blob[a].exists

(***************************************************************************)
(* A program whose goroutines share the pool and call Initialize           *)
(***************************************************************************)
\* Caller k calls Initialize with some key.
PoolCall(k) ==
    /\ pool.calls[k].pc = "idle"
    /\ \E key \in Keys : pool' = EnterInitialize(pool, k, key)
    /\ UNCHANGED <<ensure, fan, lookup, refresh, aprs, fast, upsert, build, store, conn, sync, lastSync, focus, ti, blob, last, warm>>

\* The goroutine of adapter a constructs the client and stores the pointer.
PoolConstruct(a) ==
    /\ pool.tasks[a] = "spawned"
    /\ pool' = [pool EXCEPT !.tasks[a] = "constructed",
                            !.clients[a] = NewClient(a),
                            !.constructed[a] = @ + 1]
    /\ UNCHANGED <<ensure, fan, lookup, refresh, aprs, fast, upsert, build, store, conn, sync, lastSync, focus, ti, blob, last, warm>>

\* The goroutine of adapter a initializes its client; an error goes on the
\* channel; the goroutine is done.
PoolInit(a) ==
    /\ pool.tasks[a] = "constructed"
    /\ \E resp \in Responses(a) :
           LET r == AdapterInitialize(pool.clients[a], resp, Now) IN
           pool' = [pool EXCEPT !.tasks[a] = "done",
                                !.clients[a] = r.c,
                                !.inited[a] = @ + 1,
                                !.errors = IF r.err THEN Append(@, a) ELSE @]
    /\ UNCHANGED <<ensure, fan, lookup, refresh, aprs, fast, upsert, build, store, conn, sync, lastSync, focus, ti, blob, last, warm>>

\* wg.Wait is over: the function takes the first error on the channel as
\* initErr, the Once completes and the first caller returns initErr.
PoolOnceDone ==
    /\ pool.once = "running"
    /\ \A a \in Enabled(pool.key) : pool.tasks[a] = "done"
    /\ pool' = [pool EXCEPT
                  !.once = "done",
                  !.calls[pool.runner] =
                      [@ EXCEPT !.pc = "returned",
                                !.ret = IF pool.errors # <<>> THEN Head(pool.errors)
                                        ELSE Nil]]
    /\ UNCHANGED <<ensure, fan, lookup, refresh, aprs, fast, upsert, build, store, conn, sync, lastSync, focus, ti, blob, last, warm>>

\* A caller that waited on the Once returns its own initErr, which is nil.
PoolUnblock(k) ==
    /\ pool.calls[k].pc = "blocked"
    /\ pool.once = "done"
    /\ pool' = [pool EXCEPT !.calls[k] = [@ EXCEPT !.pc = "returned", !.ret = Nil]]
    /\ UNCHANGED <<ensure, fan, lookup, refresh, aprs, fast, upsert, build, store, conn, sync, lastSync, focus, ti, blob, last, warm>>

\* A caller whose Initialize has returned asks for the clients.
PoolGetClients(k) ==
    /\ pool.calls[k].pc = "returned"
    /\ pool' = [pool EXCEPT !.calls[k] = [@ EXCEPT !.pc = "got", !.got = GetClients(pool)]]
    /\ UNCHANGED <<ensure, fan, lookup, refresh, aprs, fast, upsert, build, store, conn, sync, lastSync, focus, ti, blob, last, warm>>

InitPool ==
    /\ focus = Nil
    /\ ti = 1
    /\ blob = [a \in Adapters |-> NoBlob]
    /\ last = NoCall
    /\ warm = WarmIdle
    /\ pool = NewPool
    /\ build = "v1"
    /\ store = NewStore
    /\ conn = NoTask
    /\ sync = [k \in Tasks |-> IdleTask]
    /\ lastSync = NoSync
    /\ upsert = [k \in Tasks |-> NoUpsert]
    /\ fast = NoRun
    /\ aprs = NoStation
    /\ refresh = NoRefresh
    /\ lookup = NoLookup
    /\ fan = NoFan
    /\ ensure = NoEnsure

NextPool ==
    \/ \E k \in Callers : PoolCall(k)
    \/ \E a \in Adapters : PoolConstruct(a)
    \/ \E a \in Adapters : PoolInit(a)
    \/ PoolOnceDone
    \/ \E k \in Callers : PoolUnblock(k)
    \/ \E k \in Callers : PoolGetClients(k)

SpecPool == InitPool /\ [][NextPool]_vars

(***************************************************************************)
(* Properties of the client pool                                           *)
(***************************************************************************)
Returned(k) == pool.calls[k].pc \in {"returned", "got"}

\* The adapters whose Initialize failed.
FailedAdapters == {pool.errors[i] : i \in 1..Len(pool.errors)}

\* C3: every call of ClientPool.Initialize returns the same outcome: when the
\* initialization failed, every call, later ones included, returns that error.
C3_InitializeSameOutcome ==
    \A k1, k2 \in Callers :
        (Returned(k1) /\ Returned(k2)) => pool.calls[k1].ret = pool.calls[k2].ret

\* C4: each adapter is constructed and initialized at most once however many
\* callers call Initialize, and no Initialize call returns before all the
\* initialization goroutines that were started have finished.
C4_InitializeOnceAndComplete ==
    /\ \A a \in Adapters : pool.constructed[a] <= 1 /\ pool.inited[a] <= 1
    /\ \A k \in Callers :
          Returned(k) => \A a \in Enabled(pool.key) : pool.tasks[a] = "done"

\* C4 witness: two callers have returned, one of them after waiting on the
\* Once, and each of the three adapters was constructed and initialized once.
C4_Witness ==
    /\ \A k \in Callers : Returned(k)
    /\ \E k \in Callers : pool.calls[k].waited
    /\ \A a \in Adapters : pool.constructed[a] = 1 /\ pool.inited[a] = 1

\* C5: when an adapter's initialization fails, the pool's Initialize returns
\* an error and GetClients returns nil for the failed adapter and a non-nil
\* client for each adapter that succeeded.
C5_FailedAdapterIsNil ==
    \A k \in Callers :
        (pool.calls[k].pc = "got" /\ k = pool.runner) =>
            /\ FailedAdapters # {} => pool.calls[k].ret # Nil
            /\ \A a \in Enabled(pool.key) :
                  /\ a \in FailedAdapters => pool.calls[k].got[a] = NilClient
                  /\ a \notin FailedAdapters => pool.calls[k].got[a] # NilClient

(***************************************************************************)
(* Programs that sync provider batches into the store                      *)
(* (cmd/sync_databases_fast: sequential, parallel and streaming)           *)
(***************************************************************************)
\* A store without the connection ceiling: Begin does not wait for the
\* transaction of another task to end.
SyncBeginNoCeiling(k) ==
    /\ sync[k].pc = "idle"
    /\ ti < Len(TimePoints)
    /\ ti' = ti + 1
    /\ \E src \in SyncSources : \E batch \in Batches(src) :
          /\ sync' = [sync EXCEPT ![k] = [pc |-> "loop", src |-> src, batch |-> batch,
                                          i |-> 1, pre |-> store, w |-> store,
                                          cache |-> <<>>, applied |-> {}]]
          /\ conn' = k
          /\ lastSync' = NoSync
    /\ UNCHANGED <<ensure, fan, lookup, refresh, aprs, fast, upsert, focus, blob, last, warm, pool, build, store>>

\* Task k calls a Sync* function: GetSourceID (not in SyncTGIFData), Begin and
\* the Prepare calls.  Each needs the store's connection, so the call gets
\* past them only when no transaction holds it.  A failure of one of them
\* returns the error before any write.
SyncBegin(k) ==
    /\ sync[k].pc = "idle"
    /\ conn = NoTask
    /\ ti < Len(TimePoints)
    /\ ti' = ti + 1
    /\ \E src \in SyncSources : \E batch \in Batches(src), ok \in BOOLEAN :
          IF ok
          THEN /\ sync' = [sync EXCEPT ![k] = [pc |-> "loop", src |-> src, batch |-> batch,
                                               i |-> 1, pre |-> store, w |-> store,
                                               cache |-> <<>>, applied |-> {}]]
               /\ conn' = k
               /\ lastSync' = NoSync
          ELSE /\ sync' = [sync EXCEPT ![k] = DoneTask]
               /\ conn' = NoTask
               /\ lastSync' = [src |-> src, batch |-> batch, applied |-> {},
                               pre |-> store, w |-> store, ret |-> "error",
                               at |-> TimePoints[ti']]
    /\ UNCHANGED <<ensure, fan, lookup, refresh, aprs, fast, upsert, focus, blob, last, warm, pool, build, store>>

\* The record the loop of task k is at.
Current(k) == sync[k].batch[sync[k].i]

\* Whether the iteration issues a statement outside the transaction: the
\* second SyncBrandmeisterData version resolves a record's location with
\* d.UpsertLocation, which runs on d.db.
UsesPoolConnection(k) ==
    /\ build = "v2"
    /\ sync[k].src = "brandmeister"
    /\ (Current(k).key # "" \/ Current(k).lat # 0 \/ Current(k).lon # 0)

\* Whether the iteration issues a location insert on the transaction.
InsertsLocation(k) ==
    \/ sync[k].src = "hearham"
    \/ /\ sync[k].src = "brandmeister"
       /\ build = "v1"
       /\ <<Current(k).key, Current(k).lat, Current(k).lon>> \notin DOMAIN sync[k].cache
       /\ (Current(k).key # "" \/ Current(k).lat # 0 \/ Current(k).lon # 0)

\* One iteration of the loop, all its statements on the transaction.
SyncRecord(k) ==
    /\ sync[k].pc = "loop"
    /\ sync[k].i <= Len(sync[k].batch)
    /\ ~UsesPoolConnection(k)
    /\ \E locOk \in (IF InsertsLocation(k) THEN BOOLEAN ELSE {TRUE}), stmtOk \in BOOLEAN :
          LET r == SyncRecordStep(sync[k].src, sync[k].w, sync[k].cache, Current(k),
                                  Now, locOk, stmtOk)
          IN  sync' = [sync EXCEPT ![k].w = r.w,
                                   ![k].cache = r.cache,
                                   ![k].applied = IF r.applied THEN @ \cup {sync[k].i} ELSE @,
                                   ![k].i = @ + 1]
    /\ UNCHANGED <<ensure, fan, lookup, refresh, aprs, fast, upsert, focus, ti, blob, last, warm, pool, build, store, conn, lastSync>>

\* The iteration calls d.UpsertLocation: its first statement asks the pool for
\* a connection while the caller's own transaction holds the only one, and
\* waits for it.
SyncWaitsForConnection(k) ==
    /\ sync[k].pc = "loop"
    /\ sync[k].i <= Len(sync[k].batch)
    /\ UsesPoolConnection(k)
    /\ conn # NoTask
    /\ sync' = [sync EXCEPT ![k].pc = "blocked"]
    /\ UNCHANGED <<ensure, fan, lookup, refresh, aprs, fast, upsert, focus, ti, blob, last, warm, pool, build, store, conn, lastSync>>

\* After the loop: the catalog update, the commit, and the return; the
\* connection is released.
SyncFinish(k) ==
    /\ sync[k].pc = "loop"
    /\ sync[k].i > Len(sync[k].batch)
    /\ \E outcome \in (IF sync[k].src = "tgif" THEN {"ok", "commitFail"}
                       ELSE {"ok", "catalogFail", "commitFail"}) :
          LET e == SyncEnd(sync[k].src, sync[k].pre, sync[k].w, Len(sync[k].batch),
                           Now, outcome)
          IN  /\ store' = e.store
              /\ lastSync' = [src |-> sync[k].src, batch |-> sync[k].batch,
                              applied |-> sync[k].applied, pre |-> sync[k].pre,
                              w |-> sync[k].w, ret |-> e.ret, at |-> Now]
    /\ sync' = [sync EXCEPT ![k] = DoneTask]
    /\ conn' = NoTask
    /\ UNCHANGED <<ensure, fan, lookup, refresh, aprs, fast, upsert, focus, ti, blob, last, warm, pool, build>>

InitDB ==
    /\ focus = Nil
    /\ ti = 1
    /\ blob = [a \in Adapters |-> NoBlob]
    /\ last = NoCall
    /\ warm = WarmIdle
    /\ pool = NewPool
    /\ build \in {"v1", "v2"}
    /\ store = NewStore
    /\ conn = NoTask
    /\ sync = [k \in Tasks |-> IdleTask]
    /\ lastSync = NoSync
    /\ upsert = [k \in Tasks |-> NoUpsert]
    /\ fast = NoRun
    /\ aprs = NoStation
    /\ refresh = NoRefresh
    /\ lookup = NoLookup
    /\ fan = NoFan
    /\ ensure = NoEnsure

NextDB ==
    \/ \E k \in Tasks : SyncBegin(k)
    \/ \E k \in Tasks : SyncRecord(k)
    \/ \E k \in Tasks : SyncWaitsForConnection(k)
    \/ \E k \in Tasks : SyncFinish(k)

SpecDB == InitDB /\ [][NextDB]_vars

(***************************************************************************)
(* Properties of the sync transactions                                     *)
(***************************************************************************)
\* The external id under which a record of a repeater source is stored.
ExternalID(src, rec) ==
    IF src = "brandmeister" THEN IntToText(rec.id) ELSE rec.callsign

\* The positions of the repeater rows with that source and external id.
RowsOf(rows, src, ext) ==
    {n \in 1..Len(rows) :
        rows[n].source_id = GetSourceID(src) /\ rows[n].external_id = ext}

\* The row a record's upsert wrote is in the store.
Stored(st, src, rec) ==
    IF src = "tgif"
    THEN \E n \in 1..Len(st.talkgroups) :
            /\ st.talkgroups[n].talkgroup_id = Atoi(rec.id).n
            /\ st.talkgroups[n].network = "tgif"
    ELSE RowsOf(st.repeaters, src, ExternalID(src, rec)) # {}

\* C1: each of SyncBrandmeisterData, SyncTGIFData and SyncHearhamData is all
\* or nothing.  While a call is in progress none of its writes is in the
\* store; when it returns an error the store equals its state before the call;
\* when it returns nil the writes of all its records that were not skipped, its
\* location inserts and the catalog-row update are in the store together.
C1_SyncAllOrNothing ==
    /\ \A k \in Tasks : sync[k].pc \in {"loop", "blocked"} => store = sync[k].pre
    /\ (lastSync.src # "none" /\ lastSync.ret # Nil) => store = lastSync.pre
    /\ (lastSync.src # "none" /\ lastSync.ret = Nil) =>
          /\ store.locations = lastSync.w.locations
          /\ store.repeaters = lastSync.w.repeaters
          /\ store.talkgroups = lastSync.w.talkgroups
          /\ \A i \in lastSync.applied : Stored(store, lastSync.src, lastSync.batch[i])
          /\ lastSync.src # "tgif" =>
                store.sources[lastSync.src] =
                    [last_sync |-> lastSync.at, total_records |-> Len(lastSync.batch)]

\* C1 witness: a sync over a store that already held rows wrote in its
\* transaction, returned an error, and the store is what it was before.
C1_Witness ==
    /\ lastSync.src # "none" /\ lastSync.ret # Nil
    /\ lastSync.applied # {}
    /\ lastSync.w # lastSync.pre
    /\ lastSync.pre.repeaters # <<>>
    /\ store = lastSync.pre

NoDuplicateKeys(rows) ==
    \A m, n \in 1..Len(rows) :
        (rows[m].source_id = rows[n].source_id /\ rows[m].external_id = rows[n].external_id)
            => m = n

\* The last record of the batch with the same external id as record i among
\* those whose upsert was executed.
LastApplied(i) ==
    LET same == {j \in lastSync.applied :
                    ExternalID(lastSync.src, lastSync.batch[j])
                        = ExternalID(lastSync.src, lastSync.batch[i])}
    IN  CHOOSE j \in same : \A j2 \in same : j2 <= j

\* C2: the repeaters table never holds two rows with the same (source_id,
\* external_id), in the store and in every open transaction; after a sync
\* that returned nil each external id the batch upserted has exactly one row,
\* which carries the values of the last record of the batch upserted under
\* that id, whatever row the store held for it before.
C2_OneRowPerExternalId ==
    /\ NoDuplicateKeys(store.repeaters)
    /\ \A k \in Tasks : NoDuplicateKeys(sync[k].w.repeaters)
    /\ (lastSync.src \in {"brandmeister", "hearham"} /\ lastSync.ret = Nil) =>
          \A i \in lastSync.applied :
              LET rows == RowsOf(store.repeaters, lastSync.src,
                                 ExternalID(lastSync.src, lastSync.batch[i]))
              IN  /\ Cardinality(rows) = 1
                  /\ \A n \in rows :
                        /\ store.repeaters[n].val = lastSync.batch[LastApplied(i)].val
                        /\ store.repeaters[n].callsign = lastSync.batch[LastApplied(i)].callsign
                        /\ store.repeaters[n].last_api_sync = lastSync.at

\* C2 witness: a sync that returned nil upserted two records with the same
\* external id and different values over a store that already held a row for
\* that id; the store holds one row for it, with the later record's values.
C2_Witness ==
    /\ lastSync.src \in {"brandmeister", "hearham"} /\ lastSync.ret = Nil
    /\ \E i, j \in lastSync.applied :
          LET ext == ExternalID(lastSync.src, lastSync.batch[j]) IN
          /\ i < j
          /\ ExternalID(lastSync.src, lastSync.batch[i]) = ext
          /\ lastSync.batch[i].val # lastSync.batch[j].val
          /\ RowsOf(lastSync.pre.repeaters, lastSync.src, ext) # {}
          /\ Cardinality(RowsOf(store.repeaters, lastSync.src, ext)) = 1
          /\ \A n \in RowsOf(store.repeaters, lastSync.src, ext) :
                store.repeaters[n].val = lastSync.batch[j].val

\* C14: after a sync of any source that returned nil, the source's
\* repeater_sources row has last_sync at the time of the sync and
\* total_records at the number of records of the batch.
C14_SourceRowUpdated ==
    (lastSync.src # "none" /\ lastSync.ret = Nil) =>
        store.sources[lastSync.src] =
            [last_sync |-> lastSync.at, total_records |-> Len(lastSync.batch)]

\* C15: a sync that upserts a record whose row is already in the store with
\* the same values (a second sync over an unchanged cache) leaves the number
\* of repeater rows unchanged, leaves the row's created_at unchanged and
\* advances its updated_at.
C15_ResyncKeepsCreatedAt ==
    (lastSync.src \in {"brandmeister", "hearham"} /\ lastSync.ret = Nil) =>
        /\ (\A i \in 1..Len(lastSync.batch) :
               /\ i \in lastSync.applied
               /\ RowsOf(lastSync.pre.repeaters, lastSync.src,
                         ExternalID(lastSync.src, lastSync.batch[i])) # {})
              => Len(store.repeaters) = Len(lastSync.pre.repeaters)
        /\ \A i \in lastSync.applied :
              LET ext == ExternalID(lastSync.src, lastSync.batch[i]) IN
              \A m \in RowsOf(lastSync.pre.repeaters, lastSync.src, ext),
                 n \in RowsOf(store.repeaters, lastSync.src, ext) :
                  lastSync.pre.repeaters[m].val = lastSync.batch[LastApplied(i)].val =>
                      /\ store.repeaters[n].created_at = lastSync.pre.repeaters[m].created_at
                      /\ store.repeaters[n].updated_at > lastSync.pre.repeaters[m].updated_at

\* The rows of one source.
RowsOfSource(rows, src) == {n \in 1..Len(rows) : rows[n].source_id = GetSourceID(src)}

\* The records of the batch have pairwise distinct external ids.
DistinctExternalIds(src, batch) ==
    \A i, j \in 1..Len(batch) :
        ExternalID(src, batch[i]) = ExternalID(src, batch[j]) => i = j

OtherRepeaterSource(src) == IF src = "brandmeister" THEN "hearham" ELSE "brandmeister"

\* C16: the store holds the m rows of a sync of one repeater source, whose
\* catalog row shows m, and none of the other repeater source; a sync of the
\* other source with n records of pairwise distinct external ids, all
\* upserted, returns nil.  Then the store holds exactly m + n repeater rows,
\* n of them of the second source, and the two catalog rows show m and n --
\* also when records of the two sources share a callsign.
C16_SequentialSyncCounts ==
    LET src   == lastSync.src
        other == OtherRepeaterSource(src)
    IN  (/\ src \in {"brandmeister", "hearham"} /\ lastSync.ret = Nil
         /\ lastSync.applied = 1..Len(lastSync.batch)
         /\ DistinctExternalIds(src, lastSync.batch)
         /\ RowsOfSource(lastSync.pre.repeaters, src) = {}
         /\ lastSync.pre.sources[other].total_records = Len(lastSync.pre.repeaters))
        => /\ Len(store.repeaters) = Len(lastSync.pre.repeaters) + Len(lastSync.batch)
           /\ Cardinality(RowsOfSource(store.repeaters, src)) = Len(lastSync.batch)
           /\ Cardinality(RowsOfSource(store.repeaters, other)) = Len(lastSync.pre.repeaters)
           /\ store.sources[src].total_records = Len(lastSync.batch)
           /\ store.sources[other].total_records = Len(lastSync.pre.repeaters)

\* C16 witness: after a network-repeater sync of two records, a
\* community-repeater sync of two records, one of which has the callsign of a
\* network-repeater record, left four rows and catalog counts of two and two.
C16_Witness ==
    /\ lastSync.src = "hearham" /\ lastSync.ret = Nil
    /\ Len(lastSync.batch) = 2 /\ lastSync.applied = {1, 2}
    /\ DistinctExternalIds("hearham", lastSync.batch)
    /\ Len(lastSync.pre.repeaters) = 2
    /\ RowsOfSource(lastSync.pre.repeaters, "hearham") = {}
    /\ lastSync.pre.sources["brandmeister"].total_records = 2
    /\ \E m \in 1..Len(lastSync.pre.repeaters), i \in 1..2 :
          lastSync.pre.repeaters[m].callsign = lastSync.batch[i].callsign
    /\ Len(store.repeaters) = 4
    /\ store.sources["brandmeister"].total_records = 2
    /\ store.sources["hearham"].total_records = 2

(***************************************************************************)
(* Tasks calling Database.UpsertLocation on one store                      *)
(***************************************************************************)
\* UpsertLocation up to its SELECT.  The query fails, finds no row (the call
\* goes on to the INSERT) or finds the row's id (the call goes on to the
\* UPDATE).
UpsertSelect(k) ==
    /\ upsert[k].pc \in {"idle", "returned"}
    /\ \E key \in LocationKeys, c \in Coordinates, ok \in BOOLEAN :
          LET found == LookupLocationByKey(store.locations, key)
              call  == [NoUpsert EXCEPT !.key = key, !.lat = c[1], !.lon = c[2]]
          IN  upsert' = [upsert EXCEPT ![k] =
                  IF ~ok THEN [call EXCEPT !.pc = "returned", !.err = TRUE,
                                           !.via = "select", !.why = "stmt"]
                  ELSE IF found = 0 THEN [call EXCEPT !.pc = "insert"]
                  ELSE [call EXCEPT !.pc = "update", !.id = found]]
    /\ UNCHANGED <<ensure, fan, lookup, refresh, aprs, fast, focus, ti, blob, last, warm, pool, build, store, conn, sync, lastSync>>

\* The INSERT branch and the return that follows it.
UpsertInsert(k) ==
    /\ upsert[k].pc = "insert"
    /\ \E ok \in BOOLEAN :
          LET r == InsertLocation(store.locations, upsert[k].key, upsert[k].lat,
                                  upsert[k].lon, ok)
          IN  /\ store' = [store EXCEPT !.locations = r.locs]
              /\ upsert' = [upsert EXCEPT ![k] =
                     [@ EXCEPT !.pc = "returned", !.id = r.id, !.err = r.err,
                               !.via = "insert", !.why = r.why]]
    /\ UNCHANGED <<ensure, fan, lookup, refresh, aprs, fast, focus, ti, blob, last, warm, pool, build, conn, sync, lastSync>>

\* The UPDATE branch and the return that follows it.
UpsertUpdate(k) ==
    /\ upsert[k].pc = "update"
    /\ \E ok \in BOOLEAN :
          LET id   == upsert[k].id
              locs == IF ok THEN UpdateLocation(store.locations, id, upsert[k].lat,
                                                upsert[k].lon)
                      ELSE store.locations
          IN  /\ store' = [store EXCEPT !.locations = locs]
              /\ upsert' = [upsert EXCEPT ![k] =
                     [@ EXCEPT !.pc = "returned", !.err = ~ok,
                               !.id = IF ok THEN id ELSE 0,
                               !.via = "update", !.why = IF ok THEN "" ELSE "stmt",
                               !.old = <<store.locations[id].lat, store.locations[id].lon>>,
                               !.new = <<locs[id].lat, locs[id].lon>>]]
    /\ UNCHANGED <<ensure, fan, lookup, refresh, aprs, fast, focus, ti, blob, last, warm, pool, build, conn, sync, lastSync>>

InitLoc ==
    /\ focus = Nil
    /\ ti = 1
    /\ blob = [a \in Adapters |-> NoBlob]
    /\ last = NoCall
    /\ warm = WarmIdle
    /\ pool = NewPool
    /\ build = "v2"
    /\ store = NewStore
    /\ conn = NoTask
    /\ sync = [k \in Tasks |-> IdleTask]
    /\ lastSync = NoSync
    /\ upsert = [k \in Tasks |-> NoUpsert]
    /\ fast = NoRun
    /\ aprs = NoStation
    /\ refresh = NoRefresh
    /\ lookup = NoLookup
    /\ fan = NoFan
    /\ ensure = NoEnsure

NextLoc ==
    \/ \E k \in Tasks : UpsertSelect(k)
    \/ \E k \in Tasks : UpsertInsert(k)
    \/ \E k \in Tasks : UpsertUpdate(k)

SpecLoc == InitLoc /\ [][NextLoc]_vars

(***************************************************************************)
(* Properties of UpsertLocation                                            *)
(***************************************************************************)
\* The rows of the locations table with a given key.
LocationRows(key) == {i \in 1..Len(store.locations) : store.locations[i].key = key}

\* C17: whatever the number of UpsertLocation calls with a key, one after
\* another or by concurrent tasks, the locations table never holds two rows
\* with that key; a call that succeeds returns the id of the one row with its
\* key, and calls that succeed with the same key return the same id.
C17_OneRowPerLocationKey ==
    /\ \A key \in LocationKeys : Cardinality(LocationRows(key)) <= 1
    /\ \A k \in Tasks :
          (upsert[k].pc = "returned" /\ ~upsert[k].err) =>
              LocationRows(upsert[k].key) = {upsert[k].id}
    /\ \A j, k \in Tasks :
          (/\ upsert[j].pc = "returned" /\ ~upsert[j].err
           /\ upsert[k].pc = "returned" /\ ~upsert[k].err
           /\ upsert[j].key = upsert[k].key) => upsert[j].id = upsert[k].id

\* C17 witness: two concurrent calls with the same key and coordinates both
\* found no row and both went on to the INSERT; one inserted the row and
\* returned its id, the other was stopped by the uniqueness constraint.
C17_Witness ==
    \E j, k \in Tasks :
        /\ j # k
        /\ upsert[j].pc = "returned" /\ upsert[k].pc = "returned"
        /\ upsert[j].key = upsert[k].key
        /\ upsert[j].lat = upsert[k].lat /\ upsert[j].lon = upsert[k].lon
        /\ upsert[j].via = "insert" /\ ~upsert[j].err
        /\ upsert[k].via = "insert" /\ upsert[k].why = "unique"
        /\ LocationRows(upsert[j].key) = {upsert[j].id}

\* C18: an UpsertLocation that finds the row never replaces a stored non-zero
\* latitude or longitude, neither by another non-zero value nor by zero.
C18_NonZeroCoordinatesKept ==
    \A k \in Tasks :
        (upsert[k].pc = "returned" /\ upsert[k].via = "update" /\ ~upsert[k].err) =>
            /\ upsert[k].old[1] # 0 => upsert[k].new[1] = upsert[k].old[1]
            /\ upsert[k].old[2] # 0 => upsert[k].new[2] = upsert[k].old[2]

\* The location key of a record and whether the record carries a location.
RecordLocationKey(src, rec) == IF src = "brandmeister" THEN rec.key ELSE rec.city

HasLocation(src, rec) ==
    IF src = "brandmeister" THEN rec.key # "" \/ rec.lat # 0 \/ rec.lon # 0
    ELSE rec.city # ""

\* C19: after a sync that returned nil, the row of every upserted record that
\* carries a location references the locations row whose key is the record's,
\* whatever the batch and whatever the locations table held before.
C19_RepeaterReferencesLocation ==
    (lastSync.src \in {"brandmeister", "hearham"} /\ lastSync.ret = Nil) =>
        \A i \in lastSync.applied :
            LET rec == lastSync.batch[LastApplied(i)] IN
            HasLocation(lastSync.src, rec) =>
                \A n \in RowsOf(store.repeaters, lastSync.src, ExternalID(lastSync.src, rec)) :
                    /\ store.repeaters[n].location_id \in 1..Len(store.locations)
                    /\ store.locations[store.repeaters[n].location_id].key =
                          RecordLocationKey(lastSync.src, rec)

\* The records of the last sync that were skipped: their upsert was not
\* executed.
SkippedRecords == (1..Len(lastSync.batch)) \ lastSync.applied

\* C20: a record whose upsert statement fails, or whose talkgroup id is no
\* integer, is skipped and the loop goes on with the next record.  A call in
\* progress has passed every record before its position, whether upserted or
\* skipped; a call that returned nil has stored every record that was not
\* skipped, a talkgroup with a non-integer id is always skipped, and the rows
\* the call added or replaced are those of the records that were not skipped.
C20_SkippedRecordsDoNotAbort ==
    /\ \A k \in Tasks :
          sync[k].pc = "loop" =>
              /\ sync[k].i \in 1..(Len(sync[k].batch) + 1)
              /\ sync[k].applied \subseteq 1..(sync[k].i - 1)
    /\ (lastSync.src # "none" /\ lastSync.ret = Nil) =>
          /\ \A i \in lastSync.applied : Stored(store, lastSync.src, lastSync.batch[i])
          /\ lastSync.src = "tgif" =>
                /\ \A i \in lastSync.applied : Atoi(lastSync.batch[i].id).ok
                /\ \A n \in 1..Len(store.talkgroups) :
                      \/ \E m \in 1..Len(lastSync.pre.talkgroups) :
                            lastSync.pre.talkgroups[m] = store.talkgroups[n]
                      \/ \E i \in lastSync.applied :
                            store.talkgroups[n].talkgroup_id = Atoi(lastSync.batch[i].id).n
          /\ lastSync.src # "tgif" =>
                \A n \in 1..Len(store.repeaters) :
                    \/ \E m \in 1..Len(lastSync.pre.repeaters) :
                          lastSync.pre.repeaters[m] = store.repeaters[n]
                    \/ \E i \in lastSync.applied :
                          /\ store.repeaters[n].source_id = GetSourceID(lastSync.src)
                          /\ store.repeaters[n].external_id =
                                ExternalID(lastSync.src, lastSync.batch[i])

\* C20 witness: a talkgroup sync whose first record has a non-integer id
\* skipped it, upserted the second record, committed and returned nil.
C20_Witness ==
    /\ lastSync.src = "tgif" /\ lastSync.ret = Nil
    /\ Len(lastSync.batch) = 2
    /\ ~Atoi(lastSync.batch[1].id).ok
    /\ SkippedRecords = {1} /\ lastSync.applied = {2}
    /\ Stored(store, "tgif", lastSync.batch[2])
    /\ Len(store.talkgroups) = Len(lastSync.pre.talkgroups) + 1

(***************************************************************************)
(* The sync entry points                                                   *)
(***************************************************************************)
Strategies == {"sequential", "parallel", "streaming"}

\* main up to the choice of the strategy: NewDatabase fails (log.Fatalf) or
\* the run goes on.
FastOpen ==
    /\ fast.exit = "init"
    /\ \E dbOk \in BOOLEAN :
          fast' = IF dbOk THEN [fast EXCEPT !.exit = "running"]
                  ELSE [fast EXCEPT !.exit = "fatal", !.fatal = "database"]
    /\ UNCHANGED <<ensure, fan, lookup, refresh, aprs, focus, ti, blob, last, warm, pool, build, store, conn, sync, lastSync, upsert>>

\* A sequential strategy whose reads do not wait for the sources before them.
SeqReadBeginUnordered(s) ==
    /\ fast.exit = "running" /\ fast.strategy = "sequential"
    /\ fast.src[s].st = "Idle"
    /\ fast' = [fast EXCEPT !.src[s].st = "Fetching"]
    /\ UNCHANGED <<ensure, fan, lookup, focus, ti, blob, last, warm, pool, build, store, conn, sync, lastSync, upsert, aprs, refresh>>

\* processSequential: the read of source s begins once everything for the
\* sources before it is over.
SeqReadBegin(s) ==
    /\ fast.exit = "running" /\ fast.strategy = "sequential"
    /\ fast.src[s].st = "Idle"
    /\ \A t \in SourceSet : IndexOf(t) < IndexOf(s) => Terminal(fast.src[t].st)
    /\ fast' = [fast EXCEPT !.src[s].st = "Fetching"]
    /\ UNCHANGED <<ensure, fan, lookup, refresh, aprs, focus, ti, blob, last, warm, pool, build, store, conn, sync, lastSync, upsert>>

\* processSequential: readXCache returns; a failure is logged, otherwise the
\* count is added to totalRecords.
SeqReadEnd(s) ==
    /\ fast.exit = "running" /\ fast.strategy = "sequential"
    /\ fast.src[s].st = "Fetching"
    /\ LET r == readCache(fast.files[s]) IN
       fast' = IF r.err
               THEN [fast EXCEPT !.src[s].st = "FetchFailed", !.src[s].err = TRUE]
               ELSE [fast EXCEPT !.src[s].st = "Fetched", !.src[s].data = r.data,
                                 !.src[s].count = r.count, !.src[s].read = r.count,
                                 !.total = @ + r.count]
    /\ UNCHANGED <<ensure, fan, lookup, refresh, aprs, focus, ti, blob, last, warm, pool, build, store, conn, sync, lastSync, upsert>>

\* A sequential strategy that hands a source to the sync layer while its read
\* is still running.
SeqSyncBeginBeforeRead(s) ==
    /\ fast.exit = "running" /\ fast.strategy = "sequential"
    /\ fast.src[s].st = "Fetching"
    /\ fast' = [fast EXCEPT !.src[s].st = "Syncing",
                            !.src[s].handed = Append(@, fast.src[s].data)]
    /\ UNCHANGED <<ensure, fan, lookup, refresh, aprs, focus, ti, blob, last, warm, pool, build, store, conn, sync, lastSync, upsert>>

\* processSequential: db.SyncXData is called with the whole batch.
SeqSyncBegin(s) ==
    /\ fast.exit = "running" /\ fast.strategy = "sequential"
    /\ fast.src[s].st = "Fetched"
    /\ fast' = [fast EXCEPT !.src[s].st = "Syncing",
                            !.src[s].handed = Append(@, fast.src[s].data)]
    /\ UNCHANGED <<ensure, fan, lookup, refresh, aprs, focus, ti, blob, last, warm, pool, build, store, conn, sync, lastSync, upsert>>

\* processSequential: db.SyncXData returns; a failure is logged, a success
\* prints the source's line.
SeqSyncEnd(s) ==
    /\ fast.exit = "running" /\ fast.strategy = "sequential"
    /\ fast.src[s].st = "Syncing"
    /\ \E ok \in BOOLEAN :
          fast' = IF ok
                  THEN [Committed(fast, s, fast.src[s].data, ok) EXCEPT !.src[s].st = "Synced",
                                    !.src[s].synced = fast.src[s].count,
                                    !.lines = @ \cup {[name |-> s, records |-> fast.src[s].count]}]
                  ELSE [Committed(fast, s, fast.src[s].data, ok) EXCEPT !.src[s].st = "SyncFailed", !.src[s].err = TRUE]
    /\ UNCHANGED <<ensure, fan, lookup, refresh, aprs, focus, ti, blob, last, warm, pool, build, store, conn, sync, lastSync, upsert>>

\* processParallel, phase 1: the goroutine of source s starts its read.
ParReadBegin(s) ==
    /\ fast.exit = "running" /\ fast.strategy = "parallel" /\ fast.phase = "read"
    /\ fast.src[s].st = "Idle"
    /\ fast' = [fast EXCEPT !.src[s].st = "Fetching"]
    /\ UNCHANGED <<ensure, fan, lookup, refresh, aprs, focus, ti, blob, last, warm, pool, build, store, conn, sync, lastSync, upsert>>

\* processParallel, phase 1: readXCacheOptimized returns and the goroutine
\* sends its result.
ParReadEnd(s) ==
    /\ fast.exit = "running" /\ fast.strategy = "parallel" /\ fast.phase = "read"
    /\ fast.src[s].st = "Fetching"
    /\ LET r == readCache(fast.files[s]) IN
       fast' = IF r.err
               THEN [fast EXCEPT !.src[s].st = "FetchFailed", !.src[s].err = TRUE]
               ELSE [fast EXCEPT !.src[s].st = "Fetched", !.src[s].data = r.data,
                                 !.src[s].count = r.count, !.src[s].read = r.count]
    /\ UNCHANGED <<ensure, fan, lookup, refresh, aprs, focus, ti, blob, last, warm, pool, build, store, conn, sync, lastSync, upsert>>

\* processParallel: the result channel is closed after wg.Wait; the collection
\* loop has kept the results without error and summed their counts; phase 2
\* begins.
ParCollect ==
    /\ fast.exit = "running" /\ fast.strategy = "parallel" /\ fast.phase = "read"
    /\ \A s \in SourceSet : fast.src[s].st \in {"Fetched", "FetchFailed"}
    /\ fast' = [fast EXCEPT !.phase = "sync", !.total = SumFetched(fast.src, 1)]
    /\ UNCHANGED <<ensure, fan, lookup, refresh, aprs, focus, ti, blob, last, warm, pool, build, store, conn, sync, lastSync, upsert>>

\* A parallel strategy whose sync goroutines do not wait for the read phase.
ParSyncBeginEarly(s) ==
    /\ fast.exit = "running" /\ fast.strategy = "parallel"
    /\ fast.src[s].st = "Fetched"
    /\ fast' = [fast EXCEPT !.src[s].st = "Syncing",
                            !.src[s].handed = Append(@, fast.src[s].data)]
    /\ UNCHANGED <<ensure, fan, lookup, refresh, aprs, focus, ti, blob, last, warm, pool, build, store, conn, sync, lastSync, upsert>>

\* processParallel, phase 2: the goroutine of a kept result calls db.SyncXData.
ParSyncBegin(s) ==
    /\ fast.exit = "running" /\ fast.strategy = "parallel" /\ fast.phase = "sync"
    /\ fast.src[s].st = "Fetched"
    /\ fast' = [fast EXCEPT !.src[s].st = "Syncing",
                            !.src[s].handed = Append(@, fast.src[s].data)]
    /\ UNCHANGED <<ensure, fan, lookup, refresh, aprs, focus, ti, blob, last, warm, pool, build, store, conn, sync, lastSync, upsert>>

\* processParallel, phase 2: db.SyncXData returns, the result is sent and
\* collected: a failure is logged, a success prints the source's line.
ParSyncEnd(s) ==
    /\ fast.exit = "running" /\ fast.strategy = "parallel" /\ fast.phase = "sync"
    /\ fast.src[s].st = "Syncing"
    /\ \E ok \in BOOLEAN :
          fast' = IF ok
                  THEN [Committed(fast, s, fast.src[s].data, ok) EXCEPT !.src[s].st = "Synced",
                                    !.src[s].synced = fast.src[s].count,
                                    !.lines = @ \cup {[name |-> s, records |-> fast.src[s].count]}]
                  ELSE [Committed(fast, s, fast.src[s].data, ok) EXCEPT !.src[s].st = "SyncFailed", !.src[s].err = TRUE]
    /\ UNCHANGED <<ensure, fan, lookup, refresh, aprs, focus, ti, blob, last, warm, pool, build, store, conn, sync, lastSync, upsert>>

\* processParallelStreaming: the goroutine of source s starts and calls
\* streamXData.
StreamBegin(s) ==
    /\ fast.exit = "running" /\ fast.strategy = "streaming"
    /\ fast.src[s].st = "Idle"
    /\ fast' = [fast EXCEPT !.src[s].st = "Fetching"]
    /\ UNCHANGED <<ensure, fan, lookup, refresh, aprs, focus, ti, blob, last, warm, pool, build, store, conn, sync, lastSync, upsert>>

\* streamXData: os.Open and the opening bracket.  On failure the function
\* returns the error, which the collection loop logs.
StreamOpen(s) ==
    /\ fast.exit = "running" /\ fast.strategy = "streaming"
    /\ fast.src[s].st = "Fetching" /\ ~fast.src[s].opened
    /\ fast' = IF fast.files[s].ok
               THEN [fast EXCEPT !.src[s].opened = TRUE]
               ELSE [fast EXCEPT !.src[s].st = "FetchFailed", !.src[s].err = TRUE]
    /\ UNCHANGED <<ensure, fan, lookup, refresh, aprs, focus, ti, blob, last, warm, pool, build, store, conn, sync, lastSync, upsert>>

\* streamXData: one turn of the decoding loop.  An element that does not
\* decode is passed over; a decoded record is appended to the chunk, and a
\* chunk that has reached chunkSize is handed to db.SyncXData.
StreamDecode(s) ==
    /\ fast.exit = "running" /\ fast.strategy = "streaming"
    /\ fast.src[s].st = "Fetching" /\ fast.src[s].opened
    /\ fast.src[s].pos < Len(fast.files[s].elems)
    /\ LET e   == fast.files[s].elems[fast.src[s].pos + 1]
           buf == Append(fast.src[s].buf, e)
       IN  fast' = IF Malformed(e)
                   THEN [fast EXCEPT !.src[s].pos = @ + 1]
                   ELSE IF Len(buf) >= fast.chunkSize
                   THEN [fast EXCEPT !.src[s].pos = @ + 1, !.src[s].read = @ + 1,
                                     !.src[s].buf = buf, !.src[s].st = "Syncing",
                                     !.src[s].handed = Append(@, buf)]
                   ELSE [fast EXCEPT !.src[s].pos = @ + 1, !.src[s].read = @ + 1,
                                     !.src[s].buf = buf]
    /\ UNCHANGED <<ensure, fan, lookup, refresh, aprs, focus, ti, blob, last, warm, pool, build, store, conn, sync, lastSync, upsert>>

\* The result of a stream that returned nil, as the collection loop takes it:
\* RecordsSynced is added to the total and the source's line printed.
StreamReturned(f, s, synced) ==
    [f EXCEPT !.src[s].st = IF synced = f.src[s].read THEN "Synced" ELSE "SyncFailed",
              !.src[s].synced = synced,
              !.src[s].buf = <<>>,
              !.total = @ + synced,
              !.lines = @ \cup {[name |-> s, records |-> synced]}]

\* streamXData: db.SyncXData returns for a chunk.  A failure is logged; the
\* chunk is emptied and the loop goes on, or, after the final chunk, the
\* function returns.
StreamChunkSynced(s) ==
    /\ fast.exit = "running" /\ fast.strategy = "streaming"
    /\ fast.src[s].st = "Syncing"
    /\ \E ok \in BOOLEAN :
          LET synced == fast.src[s].synced + (IF ok THEN Len(fast.src[s].buf) ELSE 0)
              g == Committed(fast, s, fast.src[s].buf, ok)
          IN
          fast' = IF fast.src[s].final
                  THEN StreamReturned(g, s, synced)
                  ELSE [g EXCEPT !.src[s].st = "Fetching", !.src[s].synced = synced,
                                    !.src[s].buf = <<>>]
    /\ UNCHANGED <<ensure, fan, lookup, refresh, aprs, focus, ti, blob, last, warm, pool, build, store, conn, sync, lastSync, upsert>>

\* A stream that returns at the end of its input without handing over what
\* is left in the chunk.
StreamEndDropsRemainder(s) ==
    /\ fast.exit = "running" /\ fast.strategy = "streaming"
    /\ fast.src[s].st = "Fetching" /\ fast.src[s].opened
    /\ fast.src[s].pos = Len(fast.files[s].elems)
    /\ fast' = StreamReturned(fast, s, fast.src[s].synced)
    /\ UNCHANGED <<ensure, fan, lookup, refresh, aprs, focus, ti, blob, last, warm, pool, build, store, conn, sync, lastSync, upsert>>

\* streamXData: decoder.More() is false.  A non-empty chunk is handed to
\* db.SyncXData as the final chunk; otherwise the function returns.
StreamEnd(s) ==
    /\ fast.exit = "running" /\ fast.strategy = "streaming"
    /\ fast.src[s].st = "Fetching" /\ fast.src[s].opened
    /\ fast.src[s].pos = Len(fast.files[s].elems)
    /\ fast' = IF fast.src[s].buf # <<>>
               THEN [fast EXCEPT !.src[s].st = "Syncing", !.src[s].final = TRUE,
                                 !.src[s].handed = Append(@, fast.src[s].buf)]
               ELSE StreamReturned(fast, s, fast.src[s].synced)
    /\ UNCHANGED <<ensure, fan, lookup, refresh, aprs, focus, ti, blob, last, warm, pool, build, store, conn, sync, lastSync, upsert>>

\* The strategy function returns and main prints the totals.
FastFinish ==
    /\ fast.exit = "running"
    /\ \A s \in SourceSet : Terminal(fast.src[s].st)
    /\ fast' = [fast EXCEPT !.exit = "done"]
    /\ UNCHANGED <<ensure, fan, lookup, refresh, aprs, focus, ti, blob, last, warm, pool, build, store, conn, sync, lastSync, upsert>>

InitFast ==
    /\ focus = Nil
    /\ ti = 1
    /\ blob = [a \in Adapters |-> NoBlob]
    /\ last = NoCall
    /\ warm = WarmIdle
    /\ pool = NewPool
    /\ build = "v1"
    /\ store = NewStore
    /\ conn = NoTask
    /\ sync = [k \in Tasks |-> IdleTask]
    /\ lastSync = NoSync
    /\ upsert = [k \in Tasks |-> NoUpsert]
    /\ aprs = NoStation
    /\ refresh = NoRefresh
    /\ lookup = NoLookup
    /\ fan = NoFan
    /\ ensure = NoEnsure
    /\ \E strategy \in Strategies, files \in [SourceSet -> CacheFiles] :
          \E c \in (IF strategy = "streaming" THEN ChunkSizes ELSE {1}) :
              fast = [NoRun EXCEPT !.strategy = strategy, !.chunkSize = c, !.files = files]

NextFast ==
    \/ FastOpen
    \/ \E s \in SourceSet : SeqReadBegin(s)
    \/ \E s \in SourceSet : SeqReadEnd(s)
    \/ \E s \in SourceSet : SeqSyncBegin(s)
    \/ \E s \in SourceSet : SeqSyncEnd(s)
    \/ \E s \in SourceSet : ParReadBegin(s)
    \/ \E s \in SourceSet : ParReadEnd(s)
    \/ ParCollect
    \/ \E s \in SourceSet : ParSyncBegin(s)
    \/ \E s \in SourceSet : ParSyncEnd(s)
    \/ \E s \in SourceSet : StreamBegin(s)
    \/ \E s \in SourceSet : StreamOpen(s)
    \/ \E s \in SourceSet : StreamDecode(s)
    \/ \E s \in SourceSet : StreamChunkSynced(s)
    \/ \E s \in SourceSet : StreamEnd(s)
    \/ FastFinish

SpecFast == InitFast /\ [][NextFast]_vars

(***************************************************************************)
(* Properties of the sync entry points                                     *)
(***************************************************************************)
\* The source's read is over without error.
ReadDone(s) ==
    IF fast.strategy = "streaming" THEN fast.src[s].st \in {"Synced", "SyncFailed"}
    ELSE fast.src[s].st \in {"Fetched", "Syncing", "Synced", "SyncFailed"}

\* C21: a cache file whose top level is a well-formed array never fails as a
\* whole: its read does not end in an error, and the records delivered are the
\* elements that decode, validRecordCount = totalRecords - malformedCount,
\* under the whole-file readers as under the streaming decoder.
C21_MalformedElementsAreSkipped ==
    \A s \in SourceSet :
        fast.files[s].ok =>
            /\ fast.src[s].st # "FetchFailed"
            /\ ReadDone(s) => fast.src[s].read = Len(ValidRecords(fast.files[s].elems))

(***************************************************************************)
(* Decoding a station of the position service                              *)
(***************************************************************************)
\* GetStation: the response body is decoded.
AprsDecode ==
    /\ aprs.pc = "received"
    /\ LET r == DecodeStation(aprs.json) IN
       aprs' = [aprs EXCEPT !.pc = "decoded", !.err = r.err, !.time = r.time,
                            !.lat = r.lat, !.course = r.course]
    /\ UNCHANGED <<ensure, fan, lookup, refresh, focus, ti, blob, last, warm, pool, build, store, conn, sync, lastSync, upsert, fast>>

InitAprs ==
    /\ focus = Nil
    /\ ti = 1
    /\ blob = [a \in Adapters |-> NoBlob]
    /\ last = NoCall
    /\ warm = WarmIdle
    /\ pool = NewPool
    /\ build = "v1"
    /\ store = NewStore
    /\ conn = NoTask
    /\ sync = [k \in Tasks |-> IdleTask]
    /\ lastSync = NoSync
    /\ upsert = [k \in Tasks |-> NoUpsert]
    /\ fast = NoRun
    /\ refresh = NoRefresh
    /\ lookup = NoLookup
    /\ fan = NoFan
    /\ ensure = NoEnsure
    /\ \E json \in [StationFields -> JSONValues] :
          aprs = [NoStation EXCEPT !.pc = "received", !.json = json]

NextAprs == AprsDecode

SpecAprs == InitAprs /\ [][NextAprs]_vars

\* C22: decoding a station never fails on a flexible field that is a JSON
\* number or a JSON string, whatever the number and whatever the string.
C22_FlexibleFieldsNeverFail ==
    aprs.pc = "decoded" => ~aprs.err

(***************************************************************************)
(* One refreshData call of the network-repeater adapter                    *)
(***************************************************************************)
\* The number of candidates of the definition in use.
Candidates(def) == IF def = "first" THEN NumEndpointsFirst ELSE NumEndpoints

\* refreshData is called; def tells which of the two definitions runs.
RefreshDataCall ==
    /\ refresh.pc = "idle"
    /\ LET r == IF refresh.def = "first"
                THEN refreshDataFirst(refresh.pre, refresh.resp, TimePoints[2])
                ELSE refreshData(refresh.pre, refresh.resp, TimePoints[2])
       IN  refresh' = [refresh EXCEPT !.pc = "returned", !.err = r.err,
                                      !.requests = r.requests, !.c = r.c]
    /\ UNCHANGED <<ensure, fan, lookup, focus, ti, blob, last, warm, pool, build, store, conn, sync, lastSync, upsert, fast, aprs>>

InitRefresh ==
    /\ focus = Nil
    /\ ti = 1
    /\ blob = [a \in Adapters |-> NoBlob]
    /\ last = NoCall
    /\ warm = WarmIdle
    /\ pool = NewPool
    /\ build = "v1"
    /\ store = NewStore
    /\ conn = NoTask
    /\ sync = [k \in Tasks |-> IdleTask]
    /\ lastSync = NoSync
    /\ upsert = [k \in Tasks |-> NoUpsert]
    /\ fast = NoRun
    /\ aprs = NoStation
    /\ lookup = NoLookup
    /\ fan = NoFan
    /\ ensure = NoEnsure
    /\ \E def \in {"first", "second"}, pre \in RefreshClients,
          resp \in [1..NumEndpointsFirst -> RefreshOutcomes] :
          /\ \A i \in 1..NumEndpointsFirst : i > Candidates(def) => resp[i] = "fail"
          /\ refresh = [NoRefresh EXCEPT !.def = def, !.pre = pre, !.resp = resp,
                                         !.c = pre]

NextRefresh == RefreshDataCall

SpecRefresh == InitRefresh /\ [][NextRefresh]_vars

\* The candidates that answer with records.
Answering == {i \in 1..Candidates(refresh.def) : refresh.resp[i] \notin {"fail", "garbage"}}

FirstAnswering == CHOOSE i \in Answering : \A j \in Answering : i <= j

\* C23: refreshData asks its candidates in list order and stops at the first
\* that answers 200 with a parseable body, whose records the client takes; any
\* other answer moves on to the next candidate; an error is returned only
\* after every candidate was asked and failed, and then the client's records,
\* lastUpdate and validity flag are unchanged.
C23_RefreshTriesEveryCandidate ==
    refresh.pc = "returned" =>
        /\ Answering # {} =>
              /\ ~refresh.err
              /\ refresh.requests = FirstAnswering
              /\ refresh.c.allData = refresh.resp[FirstAnswering]
              /\ refresh.c.cacheValid
        /\ Answering = {} =>
              /\ refresh.err
              /\ refresh.requests = Candidates(refresh.def)
              /\ refresh.c = refresh.pre

\* C24: in the sequential strategy, when anything has begun for a source,
\* the read and the sync of every source before it are over, whatever their
\* outcome; and when the strategy returns every source has been attempted.
C24_SequentialOneSourceAtATime ==
    fast.strategy = "sequential" =>
        /\ \A s, t \in SourceSet :
              (IndexOf(t) < IndexOf(s) /\ fast.src[s].st # "Idle") => Terminal(fast.src[t].st)
        /\ fast.exit = "done" => \A s \in SourceSet : Terminal(fast.src[s].st)

\* C24 witness: a sequential run whose first source failed at its read and
\* whose second source failed at its sync went on to sync the third.
C24_Witness ==
    /\ fast.strategy = "sequential" /\ fast.exit = "done"
    /\ fast.src[FastSources[1]].st = "FetchFailed"
    /\ fast.src[FastSources[2]].st = "SyncFailed"
    /\ fast.src[FastSources[3]].st = "Synced"

\* C28: in the parallel strategy, when any source's sync task has started,
\* no source's read task is still to start or still running; a source whose
\* read failed is never handed to the sync layer; and when the strategy
\* returns, every source whose read succeeded has had its sync task finish.
C28_ParallelReadBarrier ==
    fast.strategy = "parallel" =>
        /\ (\E s \in SourceSet : fast.src[s].st \in {"Syncing", "Synced", "SyncFailed"})
              => \A t \in SourceSet : fast.src[t].st \notin {"Idle", "Fetching"}
        /\ \A s \in SourceSet : fast.src[s].st = "FetchFailed" => fast.src[s].handed = <<>>
        /\ fast.exit = "done" =>
              \A s \in SourceSet :
                 IF readCache(fast.files[s]).err
                 THEN fast.src[s].st = "FetchFailed"
                 ELSE fast.src[s].st \in {"Synced", "SyncFailed"} /\ Len(fast.src[s].handed) = 1

\* C28 witness: a parallel run in which one source failed at its read, and
\* the two others were read and synced.
C28_Witness ==
    /\ fast.strategy = "parallel" /\ fast.exit = "done"
    /\ \E s \in SourceSet :
          /\ fast.src[s].st = "FetchFailed"
          /\ \A t \in SourceSet \ {s} : fast.src[t].st = "Synced"

\* The records of a sequence of chunks, in the order they were handed over.
RECURSIVE Flatten(_)
Flatten(chunks) ==
    IF chunks = <<>> THEN <<>> ELSE Head(chunks) \o Flatten(Tail(chunks))

\* The records decoded so far from the file of source s.
DecodedSoFar(s) == ValidRecords(SubSeq(fast.files[s].elems, 1, fast.src[s].pos))

\* C29: in the chunked-streaming strategy the chunk never holds more than
\* chunkSize records; the chunks handed to the sync layer, followed by the
\* records still in the chunk being filled, are the records decoded so far,
\* each once and in input order; every chunk handed over before the end of
\* the stream has exactly chunkSize records and the final one is not empty;
\* and when the stream has returned every decoded record has been handed over.
C29_ChunksPartitionTheStream ==
    (fast.strategy = "streaming" /\ fast.chunkSize >= 1) =>
        \A s \in SourceSet :
           LET x == fast.src[s] IN
           x.opened =>
             /\ Len(x.buf) <= fast.chunkSize
             /\ Flatten(x.handed) \o (IF x.st = "Fetching" THEN x.buf ELSE <<>>) = DecodedSoFar(s)
             /\ \A i \in 1..Len(x.handed) :
                   IF i = Len(x.handed) /\ x.final
                   THEN Len(x.handed[i]) \in 1..fast.chunkSize
                   ELSE Len(x.handed[i]) = fast.chunkSize
             /\ Terminal(x.st) => /\ Flatten(x.handed) = ValidRecords(fast.files[s].elems)
                                  /\ x.read = Len(ValidRecords(fast.files[s].elems))

\* C29 witness: with chunks of two, a stream of three records has returned
\* after handing over a full chunk and then the remainder of one record.
C29_Witness ==
    /\ fast.strategy = "streaming" /\ fast.chunkSize = 2
    /\ \E s \in SourceSet :
          /\ Terminal(fast.src[s].st)
          /\ fast.src[s].handed = << <<"a", "b">>, <<"c">> >>

\* The steps of the per-source state machine
\* Idle -> Fetching -> {FetchFailed | Fetched} -> Syncing -> {SyncFailed | Synced}.
LifecycleSteps ==
    { <<"Idle", "Fetching">>, <<"Fetching", "FetchFailed">>, <<"Fetching", "Fetched">>,
      <<"Fetched", "Syncing">>, <<"Syncing", "SyncFailed">>, <<"Syncing", "Synced">> }

\* The steps of a source under chunked streaming: chunks are synced while the
\* file is still being decoded, and a stream that ends on an empty chunk
\* returns without a further sync.
StreamingSteps ==
    { <<"Idle", "Fetching">>, <<"Fetching", "FetchFailed">>, <<"Fetching", "Syncing">>,
      <<"Syncing", "Fetching">>, <<"Fetching", "SyncFailed">>, <<"Fetching", "Synced">>,
      <<"Syncing", "SyncFailed">>, <<"Syncing", "Synced">> }

\* The file of source s has been read to its end.
FetchCompleted(f, s) ==
    \/ f.src[s].st = "Fetched"
    \/ f.strategy = "streaming" /\ f.src[s].opened /\ f.src[s].pos = Len(f.files[s].elems)

\* C30 as stated: under every strategy, a source enters Syncing only when its
\* fetching has completed, does not go back to Fetching once Syncing has
\* begun, and does not leave FetchFailed, SyncFailed or Synced.
C30_LifecycleUnderEveryStrategy ==
    [][\A s \in SourceSet :
          LET a == fast.src[s].st
              b == fast'.src[s].st
          IN  /\ (a # "Syncing" /\ b = "Syncing") => FetchCompleted(fast, s)
              /\ a = "Syncing" => b # "Fetching"
              /\ Terminal(a) => b = a]_vars

\* C30 amended: under the sequential and the parallel strategy every change
\* of a source's state is a step of the state machine; under chunked
\* streaming it is a step of the interleaved machine, in which a source
\* enters Syncing with a chunk that is full or is the remainder at the end of
\* its file; under every strategy FetchFailed, SyncFailed and Synced are final.
C30_LifecyclePerStrategy ==
    [][\A s \in SourceSet :
          LET a == fast.src[s].st
              b == fast'.src[s].st
          IN  /\ Terminal(a) => b = a
              /\ a # b =>
                   IF fast.strategy = "streaming"
                   THEN /\ <<a, b>> \in StreamingSteps
                        /\ b = "Syncing" =>
                              \/ Len(fast'.src[s].buf) = fast.chunkSize
                              \/ fast'.src[s].buf # <<>> /\ FetchCompleted(fast, s)
                   ELSE <<a, b>> \in LifecycleSteps]_vars

\* C30 witness: a streaming source is decoding again after a chunk of its
\* records was handed to the sync layer.
C30_Witness ==
    /\ fast.strategy = "streaming"
    /\ \E s \in SourceSet :
          /\ fast.src[s].st = "Fetching" /\ Len(fast.src[s].handed) >= 1
          /\ fast.src[s].pos < Len(fast.files[s].elems)

(***************************************************************************)
(* The other sync entry points: the sync from the adapters of the pool and *)
(* the sync from cached data                                               *)
(***************************************************************************)
\* The entry points: "pooled" fetches each source through its client of the
\* pool, "cached" reads the three cache files and then syncs them.
EntryPoints == {"pooled", "cached"}

\* What GetAllRepeaters / GetAllTalkgroups of a client gives: an error, no
\* record, or records.
GetAllResults ==
    {NoFile, [ok |-> TRUE, elems |-> <<>>], [ok |-> TRUE, elems |-> <<"a", "b">>]}

\* The sources before s have been dealt with.
EarlierDone(s) ==
    \A t \in SourceSet : IndexOf(t) < IndexOf(s) => fast.src[t].st \in {"FetchFailed", "SyncFailed", "Synced", "Skipped"}

\* Pooled main: config.LoadConfig; a failure is fatal.
PooledLoadConfig ==
    /\ fast.strategy = "pooled" /\ fast.exit = "init" /\ fast.phase = "config"
    /\ \E ok \in BOOLEAN :
          fast' = IF ok THEN [fast EXCEPT !.phase = "database"]
                  ELSE [fast EXCEPT !.exit = "fatal", !.fatal = "config"]
    /\ UNCHANGED <<ensure, fan, lookup, focus, ti, blob, last, warm, pool, build, store, conn, sync, lastSync, upsert, aprs, refresh>>

\* Both mains: database.NewDatabase; a failure is fatal.
EntryOpenDatabase ==
    /\ fast.strategy \in EntryPoints /\ fast.exit = "init" /\ fast.phase = "database"
    /\ \E ok \in BOOLEAN :
          fast' = IF ~ok THEN [fast EXCEPT !.exit = "fatal", !.fatal = "database"]
                  ELSE IF fast.strategy = "pooled" THEN [fast EXCEPT !.phase = "initialize"]
                  ELSE [fast EXCEPT !.exit = "running", !.phase = "read"]
    /\ UNCHANGED <<ensure, fan, lookup, focus, ti, blob, last, warm, pool, build, store, conn, sync, lastSync, upsert, aprs, refresh>>

\* Pooled main: pool.Initialize(key) returns the first error of the adapters
\* it initialized, and main ends the process on it; without a key the
\* Brandmeister client stays nil and its source is skipped by the loop.
PooledInitialize ==
    /\ fast.strategy = "pooled" /\ fast.exit = "init" /\ fast.phase = "initialize"
    /\ \E key \in BOOLEAN, failed \in SUBSET SourceSet :
          LET enabled == IF key THEN SourceSet ELSE SourceSet \ {FastSources[1]} IN
          fast' = IF failed \cap enabled # {}
                  THEN [fast EXCEPT !.exit = "fatal", !.fatal = "adapter",
                                    !.src = [s \in SourceSet |->
                                               IF s \in failed \cap enabled
                                               THEN [fast.src[s] EXCEPT !.err = TRUE]
                                               ELSE fast.src[s]]]
                  ELSE [fast EXCEPT !.exit = "running", !.phase = "sources",
                                    !.src[FastSources[1]].st = IF key THEN "Idle" ELSE "Skipped"]
    /\ UNCHANGED <<ensure, fan, lookup, focus, ti, blob, last, warm, pool, build, store, conn, sync, lastSync, upsert, aprs, refresh>>

\* Pooled main: syncXWithPool for source s and what main does with its result.
\* A fetch error returns a result without records; otherwise RecordCount is
\* the number of records fetched, whether or not db.SyncXData then succeeds;
\* main adds a result to the total and to the report when RecordCount > 0.
PooledSyncSource(s) ==
    /\ fast.strategy = "pooled" /\ fast.exit = "running"
    /\ fast.src[s].st = "Idle" /\ EarlierDone(s)
    /\ \E ok \in BOOLEAN :
          LET f == fast.files[s]
              n == Len(f.elems)
              st == IF ~f.ok THEN "FetchFailed" ELSE IF ok THEN "Synced" ELSE "SyncFailed"
              g == [(IF f.ok THEN Committed(fast, s, f.elems, ok) ELSE fast)
                       EXCEPT !.src[s].st = st,
                                !.src[s].err = (st # "Synced"),
                                !.src[s].count = IF f.ok THEN n ELSE 0,
                                !.src[s].read = IF f.ok THEN n ELSE 0,
                                !.src[s].handed = IF f.ok THEN <<f.elems>> ELSE <<>>,
                                !.src[s].synced = IF st = "Synced" THEN n ELSE 0]
          IN  fast' = IF f.ok /\ n > 0
                      THEN [g EXCEPT !.total = @ + n,
                                     !.lines = @ \cup {[name |-> s, records |-> n]}]
                      ELSE g
    /\ UNCHANGED <<ensure, fan, lookup, focus, ti, blob, last, warm, pool, build, store, conn, sync, lastSync, upsert, aprs, refresh>>

\* Cached main: readXCache of source s, after the files before it; an error
\* ends the process.
CachedRead(s) ==
    /\ fast.strategy = "cached" /\ fast.exit = "running" /\ fast.phase = "read"
    /\ fast.src[s].st = "Idle"
    /\ \A t \in SourceSet : IndexOf(t) < IndexOf(s) => fast.src[t].st = "Fetched"
    /\ LET r == readCache(fast.files[s]) IN
       fast' = IF r.err
               THEN [fast EXCEPT !.src[s].st = "FetchFailed", !.src[s].err = TRUE,
                                 !.exit = "fatal", !.fatal = "read"]
               ELSE [fast EXCEPT !.src[s].st = "Fetched", !.src[s].data = r.data,
                                 !.src[s].count = r.count, !.src[s].read = r.count,
                                 !.phase = IF IndexOf(s) = Len(FastSources) THEN "sync" ELSE "read"]
    /\ UNCHANGED <<ensure, fan, lookup, focus, ti, blob, last, warm, pool, build, store, conn, sync, lastSync, upsert, aprs, refresh>>

\* Cached main: db.SyncXData of source s, after the sources before it; an
\* error ends the process.
CachedSync(s) ==
    /\ fast.strategy = "cached" /\ fast.exit = "running" /\ fast.phase = "sync"
    /\ fast.src[s].st = "Fetched"
    /\ \A t \in SourceSet : IndexOf(t) < IndexOf(s) => fast.src[t].st = "Synced"
    /\ \E ok \in BOOLEAN :
          fast' = IF ok
                  THEN [Committed(fast, s, fast.src[s].data, ok) EXCEPT !.src[s].st = "Synced", !.src[s].synced = fast.src[s].count,
                                    !.src[s].handed = <<fast.src[s].data>>]
                  ELSE [Committed(fast, s, fast.src[s].data, ok) EXCEPT !.src[s].st = "SyncFailed", !.src[s].err = TRUE,
                                    !.src[s].handed = <<fast.src[s].data>>,
                                    !.exit = "fatal", !.fatal = "sync"]
    /\ UNCHANGED <<ensure, fan, lookup, focus, ti, blob, last, warm, pool, build, store, conn, sync, lastSync, upsert, aprs, refresh>>

\* Both mains: the report.  The cached main prints the sum of the three
\* lengths; the pooled main prints the results it kept and their total.
EntryReport ==
    /\ fast.strategy \in EntryPoints /\ fast.exit = "running"
    /\ \A s \in SourceSet : fast.src[s].st \in {"FetchFailed", "SyncFailed", "Synced", "Skipped"}
    /\ fast' = IF fast.strategy = "cached"
               THEN [fast EXCEPT !.exit = "done",
                                 !.total = fast.src[FastSources[1]].count
                                           + fast.src[FastSources[2]].count
                                           + fast.src[FastSources[3]].count]
               ELSE [fast EXCEPT !.exit = "done"]
    /\ UNCHANGED <<ensure, fan, lookup, focus, ti, blob, last, warm, pool, build, store, conn, sync, lastSync, upsert, aprs, refresh>>

InitEntry ==
    /\ focus = Nil
    /\ ti = 1
    /\ blob = [a \in Adapters |-> NoBlob]
    /\ last = NoCall
    /\ warm = WarmIdle
    /\ pool = NewPool
    /\ build = "v1"
    /\ store = NewStore
    /\ conn = NoTask
    /\ sync = [k \in Tasks |-> IdleTask]
    /\ lastSync = NoSync
    /\ upsert = [k \in Tasks |-> NoUpsert]
    /\ aprs = NoStation
    /\ refresh = NoRefresh
    /\ lookup = NoLookup
    /\ fan = NoFan
    /\ ensure = NoEnsure
    /\ \E entry \in EntryPoints :
          \E files \in [SourceSet -> (IF entry = "pooled" THEN GetAllResults ELSE CacheFiles)] :
              fast = [NoRun EXCEPT !.strategy = entry, !.files = files,
                                   !.phase = IF entry = "pooled" THEN "config" ELSE "database"]

NextEntry ==
    \/ PooledLoadConfig
    \/ EntryOpenDatabase
    \/ PooledInitialize
    \/ \E s \in SourceSet : PooledSyncSource(s)
    \/ \E s \in SourceSet : CachedRead(s)
    \/ \E s \in SourceSet : CachedSync(s)
    \/ EntryReport

SpecEntry == InitEntry /\ [][NextEntry]_vars

\* C25: a run that ended with a fatal error ended because the configuration
\* could not be loaded or the database could not be opened, not because of a
\* failure of one source's adapter, read, fetch or sync.
C25_OnlyConfigAndDatabaseAreFatal ==
    fast.exit = "fatal" => fast.fatal \in {"config", "database"}

\* What source s contributes to the total when only synced sources count.
SyncedRecords(s) == IF fast.src[s].st = "Synced" THEN fast.src[s].synced ELSE 0

\* C26: when a strategy has returned, every source has a line in the
\* per-source list, the line of a source that failed at its read or its sync
\* shows zero records, and the total is the sum over the sources that did
\* not fail.
C26_FailedSourcesReportedWithZero ==
    fast.exit = "done" =>
        /\ \A s \in SourceSet : \E l \in fast.lines : l.name = s
        /\ \A s \in SourceSet :
              fast.src[s].st \in {"FetchFailed", "SyncFailed"} =>
                 \A l \in fast.lines : l.name = s => l.records = 0
        /\ fast.total = SyncedRecords(FastSources[1]) + SyncedRecords(FastSources[2])
                        + SyncedRecords(FastSources[3])

(***************************************************************************)
(* A program that searches the repeaters by frequency                      *)
(***************************************************************************)
\* GetRepeatersByFrequency(f, r, limit): the query, which may fail, and the
\* scanning loop.
FrequencyQuery ==
    /\ lookup.pc = "called"
    /\ \E ok \in BOOLEAN :
       \E q \in Orderings(Matching(lookup.table, lookup.f - lookup.r, lookup.f + lookup.r), lookup.f) :
          lookup' = IF ok
                    THEN [lookup EXCEPT !.pc = "returned",
                                        !.result = GetRepeatersByFrequency(lookup.def, Limit(q, lookup.limit))]
                    ELSE [lookup EXCEPT !.pc = "returned", !.err = TRUE]
    /\ UNCHANGED <<ensure, fan, focus, ti, blob, last, warm, pool, build, store, conn, sync, lastSync, upsert, fast, aprs, refresh>>

InitLookup ==
    /\ focus = Nil
    /\ ti = 1
    /\ blob = [a \in Adapters |-> NoBlob]
    /\ last = NoCall
    /\ warm = WarmIdle
    /\ pool = NewPool
    /\ build = "v1"
    /\ store = NewStore
    /\ conn = NoTask
    /\ sync = [k \in Tasks |-> IdleTask]
    /\ lastSync = NoSync
    /\ upsert = [k \in Tasks |-> NoUpsert]
    /\ fast = NoRun
    /\ aprs = NoStation
    /\ refresh = NoRefresh
    /\ fan = NoFan
    /\ ensure = NoEnsure
    /\ \E def \in {"first", "second"}, table \in SUBSET FrequencyRows,
          f \in Frequencies, r \in Ranges, limit \in Limits :
          lookup = [NoLookup EXCEPT !.def = def, !.table = table, !.f = f, !.r = r,
                                    !.limit = limit, !.pc = "called"]

NextLookup == FrequencyQuery

SpecLookup == InitLookup /\ [][NextLookup]_vars

\* The rows of the table within r of f.
InRange == Matching(lookup.table, lookup.f - lookup.r, lookup.f + lookup.r)

\* C27: a search that returned without error returned rows of the table whose
\* tx_frequency lies in [f - r, f + r], each once, in ascending order of
\* |tx_frequency - f|, the nearest ones when there are more than limit, and
\* min(limit, number of rows in range) of them; with the rows at 144.0, 146.52
\* and 148.5 and (f, r) = (146.52, 1) and a limit of at least one, the result
\* is the 146.52 row alone.
C27_SearchByFrequency ==
    (lookup.pc = "returned" /\ ~lookup.err) =>
        LET res == lookup.result
            d(row) == Abs(row.tx - lookup.f)
        IN  /\ \A i \in DOMAIN res : res[i] \in InRange
            /\ \A i, j \in DOMAIN res : i # j => res[i] # res[j]
            /\ \A i, j \in DOMAIN res : i < j => d(res[i]) <= d(res[j])
            /\ Len(res) = (IF lookup.limit < Cardinality(InRange) THEN lookup.limit
                           ELSE Cardinality(InRange))
            /\ \A row \in InRange : \A i \in DOMAIN res :
                  (\A j \in DOMAIN res : res[j] # row) => d(res[i]) <= d(row)
            /\ ({row.tx : row \in lookup.table} = {14400, 14652, 14850}
                  /\ lookup.f = 14652 /\ lookup.r = 100 /\ lookup.limit >= 1)
               => /\ Len(res) = 1
                  /\ res[1].tx = 14652

\* The transaction of task k's Sync* call is open.
TxOpen(k) == sync[k].pc \in {"loop", "blocked"}

\* C31: with the connection ceiling of one, at most one task has a
\* transaction open, that task holds the connection, and while its
\* transaction is open nothing of another task's Sync* call executes.
C31_TransactionsAreSerialized ==
    /\ [](\A k \in Tasks : TxOpen(k) =>
             /\ conn = k
             /\ \A j \in Tasks \ {k} : ~TxOpen(j))
    /\ [][\A k \in Tasks : TxOpen(k) =>
             \A j \in Tasks \ {k} : sync'[j] = sync[j]]_vars

\* C31 witness: a task is inside its transaction, having executed a record's
\* statements, after the sync of another task has committed its rows; the
\* second transaction began from the store the first one left.
C31_Witness ==
    \E k, j \in Tasks :
        /\ k # j
        /\ sync[j].pc = "returned" /\ store # NewStore
        /\ TxOpen(k) /\ sync[k].i > 1 /\ sync[k].pre = store

\* C32: no Sync* call waits for a database connection while its own open
\* transaction holds the only one.
C32_NoSyncWaitsOnItsOwnTransaction ==
    \A k \in Tasks : ~(sync[k].pc = "blocked" /\ conn = k)

(***************************************************************************)
(* A run of a function that starts workers and collects from their channel *)
(***************************************************************************)
\* The failures that count in the current phase.
FanFails == IF fan.phase = 2 THEN fan.fails2 ELSE fan.fails

\* The task of worker s terminates (an Initialize, a RefreshCache, a cache
\* read, a stream, a Sync* call): the goroutine goes on to send, or has
\* nothing to send and returns.
FanWorkerEnds(s) ==
    /\ fan.pc = "collecting" /\ fan.w[s] = "running"
    /\ fan' = [fan EXCEPT !.w[s] = IF SendsAlways(fan.kind) \/ s \in FanFails
                                   THEN "sending" ELSE "done"]
    /\ UNCHANGED <<ensure, focus, ti, blob, last, warm, pool, build, store, conn, sync, lastSync, upsert, fast, aprs, refresh, lookup>>

\* Worker s sends on the channel, which needs room in the buffer, and
\* returns (wg.Done is deferred).
FanWorkerSends(s) ==
    /\ fan.w[s] = "sending"
    /\ Len(fan.chan) < fan.cap
    /\ fan' = [fan EXCEPT !.chan = Append(@, [from |-> s, err |-> s \in FanFails]),
                          !.w[s] = "done"]
    /\ UNCHANGED <<ensure, focus, ti, blob, last, warm, pool, build, store, conn, sync, lastSync, upsert, fast, aprs, refresh, lookup>>

\* wg.Wait() returns once every worker has returned, and the channel is
\* closed.
FanClose ==
    /\ fan.pc = "collecting" /\ ~fan.closed
    /\ \A s \in SourceSet : fan.w[s] \in {"none", "done"}
    /\ fan' = [fan EXCEPT !.closed = TRUE]
    /\ UNCHANGED <<ensure, focus, ti, blob, last, warm, pool, build, store, conn, sync, lastSync, upsert, fast, aprs, refresh, lookup>>

\* One turn of the collecting loop.  WarmCaches returns the first error it
\* receives; Initialize keeps the first error; the strategies keep the
\* results without error.
FanReceive ==
    /\ fan.pc = "collecting" /\ fan.chan # <<>>
    /\ WaitsInline(fan.kind) => fan.closed
    /\ LET msg == Head(fan.chan) IN
       fan' = IF fan.kind = "WarmCaches" /\ msg.err
              THEN [fan EXCEPT !.chan = Tail(@), !.pc = "returned", !.ret = msg.from]
              ELSE [fan EXCEPT !.chan = Tail(@),
                               !.kept = IF msg.err THEN @ ELSE @ \cup {msg.from},
                               !.ret = IF msg.err /\ @ = Nil THEN msg.from ELSE @]
    /\ UNCHANGED <<ensure, focus, ti, blob, last, warm, pool, build, store, conn, sync, lastSync, upsert, fast, aprs, refresh, lookup>>

\* The collecting loop ends on the closed, drained channel.  processParallel
\* then starts a sync goroutine for each result it kept, with a channel of
\* that many places; the other functions return.
FanRangeEnds ==
    /\ fan.pc = "collecting" /\ fan.closed /\ fan.chan = <<>>
    /\ fan' = IF fan.kind = "processParallel" /\ fan.phase = 1
              THEN [fan EXCEPT !.phase = 2, !.closed = FALSE, !.workers = fan.kept,
                               !.w = [s \in SourceSet |->
                                        IF s \in fan.kept THEN "running" ELSE "none"],
                               !.cap = ChannelCapacity(fan.kind, 2, Cardinality(fan.kept)),
                               !.kept = {}, !.ret = Nil]
              ELSE [fan EXCEPT !.pc = "returned"]
    /\ UNCHANGED <<ensure, focus, ti, blob, last, warm, pool, build, store, conn, sync, lastSync, upsert, fast, aprs, refresh, lookup>>

InitFan ==
    /\ focus = Nil
    /\ ti = 1
    /\ blob = [a \in Adapters |-> NoBlob]
    /\ last = NoCall
    /\ warm = WarmIdle
    /\ pool = NewPool
    /\ build = "v1"
    /\ store = NewStore
    /\ conn = NoTask
    /\ sync = [k \in Tasks |-> IdleTask]
    /\ lastSync = NoSync
    /\ upsert = [k \in Tasks |-> NoUpsert]
    /\ fast = NoRun
    /\ aprs = NoStation
    /\ refresh = NoRefresh
    /\ lookup = NoLookup
    /\ ensure = NoEnsure
    /\ \E kind \in FanFunctions, fails \in SUBSET SourceSet :
       \E key \in (IF WaitsInline(kind) THEN BOOLEAN ELSE {TRUE}),
          fails2 \in (IF kind = "processParallel" THEN SUBSET SourceSet ELSE {{}}) :
          LET workers == IF key THEN SourceSet ELSE SourceSet \ {FastSources[1]} IN
          fan = [NoFan EXCEPT !.kind = kind, !.workers = workers,
                              !.fails = fails, !.fails2 = fails2,
                              !.w = [s \in SourceSet |->
                                       IF s \in workers THEN "running" ELSE "none"],
                              !.cap = ChannelCapacity(kind, 1, Cardinality(workers)),
                              !.pc = "collecting"]

NextFan ==
    \/ \E s \in SourceSet : FanWorkerEnds(s)
    \/ \E s \in SourceSet : FanWorkerSends(s)
    \/ FanClose
    \/ FanReceive
    \/ FanRangeEnds

SpecFan == InitFan /\ [][NextFan]_vars

\* The goroutines and the collecting loop are scheduled: a step that stays
\* possible is eventually taken.
SpecFanFair == SpecFan /\ WF_vars(NextFan)

\* C33: a worker that has something to send always finds room in the
\* channel, and every run returns, whichever workers fail.
C33_WorkersAndCollectorTerminate ==
    /\ [](\A s \in SourceSet : fan.w[s] = "sending" => Len(fan.chan) < fan.cap)
    /\ <>(fan.pc = "returned")

\* C33 witness: a run of Initialize in which every worker failed has
\* returned, all of its workers having sent their error and returned.
C33_Witness ==
    /\ fan.kind = "Initialize" /\ fan.pc = "returned"
    /\ fan.workers = SourceSet /\ fan.fails = SourceSet
    /\ \A s \in SourceSet : fan.w[s] = "done"
    /\ fan.ret # Nil

\* The index of the last chunk of source s whose sync succeeded, 0 if none.
LastCommitted(s) ==
    LET I == {i \in 1..Len(fast.src[s].oks) : fast.src[s].oks[i]} IN
    IF I = {} THEN 0 ELSE CHOOSE i \in I : \A j \in I : j <= i

RECURSIVE CommittedFrom(_, _)
CommittedFrom(s, i) ==
    IF i > Len(fast.src[s].oks) THEN <<>>
    ELSE (IF fast.src[s].oks[i] THEN fast.src[s].handed[i] ELSE <<>>) \o CommittedFrom(s, i + 1)

\* C35: in the chunked-streaming strategy what is stored for a source is the
\* records of the chunks whose sync succeeded, a failed chunk leaving out
\* its own records only; and a stream that has opened its file and returned
\* has attempted every chunk, returned no error, reported as recordsSynced
\* the number of records of the committed chunks, at most recordsRead, and
\* had its result line printed with that number.
C35_FailedChunkIsRolledBackAlone ==
    fast.strategy = "streaming" =>
        \A s \in SourceSet :
           LET x == fast.src[s] IN
           /\ x.stored = CommittedFrom(s, 1)
           /\ (x.opened /\ Terminal(x.st)) =>
                 /\ x.st # "FetchFailed" /\ ~x.err
                 /\ Len(x.oks) = Len(x.handed)
                 /\ Flatten(x.handed) = ValidRecords(fast.files[s].elems)
                 /\ x.synced = Len(CommittedFrom(s, 1))
                 /\ x.synced <= x.read
                 /\ [name |-> s, records |-> x.synced] \in fast.lines

\* C35 witness: with chunks of one, the second of three chunks failed; the
\* first and the third are stored and the stream reported two records synced
\* of three read.
C35_Witness ==
    /\ fast.strategy = "streaming" /\ fast.chunkSize = 1
    /\ \E s \in SourceSet :
          /\ Terminal(fast.src[s].st)
          /\ fast.src[s].oks = <<TRUE, FALSE, TRUE>>
          /\ fast.src[s].stored = <<"a", "c">>
          /\ fast.src[s].synced = 2 /\ fast.src[s].read = 3

\* C36: a RefreshCache whose fetch failed returned that error without having
\* answered from the cache file, and left no cache file: a load of the
\* adapter's file now misses, whatever the age of the file the call found.
C36_FailedRefreshLosesTheCache ==
    (last.op = "Refresh" /\ last.fetches = 1 /\ last.err) =>
        /\ ~last.hit /\ last.ret = Nil
        /\ blob[last.a] = NoBlob
        /\ loadFromCache(blob[last.a], last.a, Now, TRUE).err

\* C36 witness: RefreshCache found a file young enough to be loaded, its
\* fetch failed, and the file is gone.
C36_Witness ==
    /\ last.op = "Refresh" /\ last.err /\ last.fetches = 1
    /\ last.pre.exists /\ PreAge <= LoadMaxAge(last.a)
    /\ ~loadFromCache(last.pre, last.a, last.at, TRUE).err
    /\ ~blob[last.a].exists

\* The callsigns of the records the last sync upserted.
AppliedCallsigns == {lastSync.batch[i].callsign : i \in lastSync.applied}

\* The external ids of the rows of source src among rows.
ExternalIdsOf(rows, src) == {rows[n].external_id : n \in RowsOfSource(rows, src)}

\* C37: after a community-repeater sync that returned nil, the source's rows
\* are those it had before plus one per distinct callsign the sync upserted,
\* never two for one callsign, and the row of an upserted callsign holds the
\* last record upserted with that callsign.  On a store without rows of the
\* source, with every record upserted, the number of the source's rows is the
\* number of distinct callsigns of the batch.
C37_OneRowPerCallsign ==
    (lastSync.src = "hearham" /\ lastSync.ret = Nil) =>
        LET rows == store.repeaters
            had  == ExternalIdsOf(lastSync.pre.repeaters, "hearham")
        IN  /\ ExternalIdsOf(rows, "hearham") = had \cup AppliedCallsigns
            /\ Cardinality(RowsOfSource(rows, "hearham")) = Cardinality(had \cup AppliedCallsigns)
            /\ \A i \in lastSync.applied :
                  \A n \in RowsOf(rows, "hearham", lastSync.batch[i].callsign) :
                     rows[n].val = lastSync.batch[LastApplied(i)].val
            /\ (had = {} /\ lastSync.applied = 1..Len(lastSync.batch)) =>
                  Cardinality(RowsOfSource(rows, "hearham"))
                     = Cardinality({lastSync.batch[i].callsign : i \in 1..Len(lastSync.batch)})

\* C37 witness: a sync of two records with the ids 1 and 2 and the same
\* callsign, both upserted, into a store without rows of the source, left
\* one row, which holds the second record.
C37_Witness ==
    /\ lastSync.src = "hearham" /\ lastSync.ret = Nil
    /\ Len(lastSync.batch) = 2 /\ lastSync.applied = {1, 2}
    /\ lastSync.batch[1].id # lastSync.batch[2].id
    /\ lastSync.batch[1].callsign = lastSync.batch[2].callsign
    /\ RowsOfSource(lastSync.pre.repeaters, "hearham") = {}
    /\ Cardinality(RowsOfSource(store.repeaters, "hearham")) = 1
    /\ \A n \in RowsOfSource(store.repeaters, "hearham") :
          store.repeaters[n].val = lastSync.batch[2].val

(***************************************************************************)
(* A program that asks a client for all records and then searches          *)
(***************************************************************************)
\* The adapters whose operations go through this ensureData.
EnsureAdapters == {"hearham", "tgif"}

\* The client of the last GetAllRepeaters / GetAllTalkgroups call is used for
\* an operation that begins with ensureData (SearchByCallsign, GetAllData,
\* GetTalkgroup, ...).
EnsureDataCall(a) ==
    /\ last.op = "GetAll" /\ last.a = a /\ ~last.err
    /\ \E r \in NetOutcomes :
          LET e == ensureData(last.c, r, Now) IN
          ensure' = [pc |-> "returned", a |-> a, before |-> last.c, after |-> e.c,
                     at |-> Now, file |-> blob[a], net |-> r,
                     requests |-> e.requests, err |-> e.err]
    /\ UNCHANGED <<focus, ti, blob, last, warm, pool, build, store, conn, sync, lastSync, upsert, fast, aprs, refresh, lookup, fan>>

InitEnsure ==
    /\ focus \in EnsureAdapters
    /\ ti = 1
    /\ blob = [a \in Adapters |-> NoBlob]
    /\ last = NoCall
    /\ warm = WarmIdle
    /\ pool = NewPool
    /\ build = "v1"
    /\ store = NewStore
    /\ conn = NoTask
    /\ sync = [k \in Tasks |-> IdleTask]
    /\ lastSync = NoSync
    /\ upsert = [k \in Tasks |-> NoUpsert]
    /\ fast = NoRun
    /\ aprs = NoStation
    /\ refresh = NoRefresh
    /\ lookup = NoLookup
    /\ fan = NoFan
    /\ ensure = NoEnsure

\* The program ends with the operation that begins with ensureData.
NextEnsure ==
    \/ ensure.pc = "idle" /\ Tick
    \/ ensure.pc = "idle" /\ GetAllCall(focus)
    \/ ensure.pc = "idle" /\ EnsureDataCall(focus)

SpecEnsure == InitEnsure /\ [][NextEnsure]_vars

\* The cache file was fresh at the time of the ensureData-based operation.
EnsureFileFresh ==
    /\ ensure.file.exists
    /\ ensure.at - ensure.file.mtime <= LoadMaxAge(ensure.a)
    /\ ensure.at - ensure.file.mtime <= CacheTime(ensure.a)

\* C38: a cache hit in GetAllRepeaters / GetAllTalkgroups replaces the
\* client's in-memory records with the file's and leaves lastUpdate at the
\* zero time; the next ensureData-based operation on such a client (records
\* from the file, never fetched itself) makes one network request, however
\* fresh the cache file is.
C38_CacheHitLeavesLastUpdateUnset ==
    /\ (last.op = "GetAll" /\ last.a \in EnsureAdapters /\ last.hit)
          => /\ last.c.allData = last.pre.data
             /\ last.c.lastUpdate = ZeroTime
    /\ (ensure.pc = "returned" /\ ensure.before.allData # Nil
            /\ ensure.before.lastUpdate = ZeroTime)
          => /\ ensure.requests = 1
             /\ (ensure.net # "fail" =>
                    ensure.after.allData = ensure.net /\ ensure.after.lastUpdate = ensure.at)
             /\ (ensure.net = "fail" => ensure.err /\ ensure.after = ensure.before)

\* A client filled by a cache hit fetched from the network in its next
\* ensureData-based operation although the cache file was fresh.
C38_Witness ==
    /\ ensure.pc = "returned"
    /\ ensure.before.allData # Nil
    /\ ensure.before.lastUpdate = ZeroTime
    /\ ensure.before.allData = ensure.file.data
    /\ EnsureFileFresh
    /\ ensure.requests = 1
    /\ ~ensure.err

(***************************************************************************)
(* The pooled sync with the pool it initializes                            *)
(***************************************************************************)
\* The goroutine of main, the only caller of Initialize in the pooled sync.
MainCaller == CHOOSE k \in Callers : \A j \in Callers : k <= j

\* The client of the pool that serves a source of the sync.
ClientOf(s) ==
    CASE s = FastSources[1] -> "brandmeister"
      [] s = FastSources[2] -> "tgif"
      [] s = FastSources[3] -> "hearham"

\* Pooled main: pool.Initialize(cfg.APIs.BrandmeisterKey).
MainInitialize ==
    /\ fast.strategy = "pooled" /\ fast.exit = "init"
    /\ PoolCall(MainCaller)

\* Pooled main: Initialize returned an error, log.Fatalf ends the process.
MainInitializeFailed ==
    /\ fast.strategy = "pooled" /\ fast.exit = "init"
    /\ pool.calls[MainCaller].pc = "returned"
    /\ pool.calls[MainCaller].ret # Nil
    /\ fast' = [fast EXCEPT !.exit = "fatal", !.fatal = "adapter"]
    /\ UNCHANGED <<ensure, fan, lookup, focus, ti, blob, last, warm, pool, build, store, conn, sync, lastSync, upsert, aprs, refresh>>

\* Pooled main: Initialize returned nil and main takes the clients.
MainGetClients ==
    /\ fast.strategy = "pooled" /\ fast.exit = "init"
    /\ pool.calls[MainCaller].ret = Nil
    /\ PoolGetClients(MainCaller)

\* Pooled main: the loop over the sources begins; a source whose client is
\* nil is skipped with a log line, the others go to syncXWithPool.
MainLoopBegins ==
    /\ fast.strategy = "pooled" /\ fast.exit = "init"
    /\ pool.calls[MainCaller].pc = "got"
    /\ fast' = [fast EXCEPT
                  !.exit = "running", !.phase = "sources",
                  !.src = [s \in SourceSet |->
                             IF pool.calls[MainCaller].got[ClientOf(s)] = NilClient
                             THEN [fast.src[s] EXCEPT !.st = "Skipped"]
                             ELSE fast.src[s]]]
    /\ UNCHANGED <<ensure, fan, lookup, focus, ti, blob, last, warm, pool, build, store, conn, sync, lastSync, upsert, aprs, refresh>>

InitPoolSync ==
    /\ focus = Nil
    /\ ti = 1
    /\ blob = [a \in Adapters |-> NoBlob]
    /\ last = NoCall
    /\ warm = WarmIdle
    /\ pool = NewPool
    /\ build = "v1"
    /\ store = NewStore
    /\ conn = NoTask
    /\ sync = [k \in Tasks |-> IdleTask]
    /\ lastSync = NoSync
    /\ upsert = [k \in Tasks |-> NoUpsert]
    /\ aprs = NoStation
    /\ refresh = NoRefresh
    /\ lookup = NoLookup
    /\ fan = NoFan
    /\ ensure = NoEnsure
    /\ \E files \in [SourceSet -> GetAllResults] :
          fast = [NoRun EXCEPT !.strategy = "pooled", !.files = files,
                               !.phase = "initialize"]

NextPoolSync ==
    \/ MainInitialize
    \/ \E a \in Adapters : PoolConstruct(a)
    \/ \E a \in Adapters : PoolInit(a)
    \/ PoolOnceDone
    \/ MainInitializeFailed
    \/ MainGetClients
    \/ MainLoopBegins
    \/ \E s \in SourceSet : PooledSyncSource(s)
    \/ EntryReport

SpecPoolSync == InitPoolSync /\ [][NextPoolSync]_vars

\* The adapters without a key condition.
KeylessAdapters == Adapters \ {"brandmeister"}

\* C39: when Initialize runs with an empty Brandmeister key, no Brandmeister
\* client is constructed or initialized, GetClients returns nil for it, and
\* Initialize returns nil exactly when neither the TGIF nor the hearham
\* initialization failed and otherwise the error of one of those two; the
\* pooled sync then skips the Brandmeister source, without a line or records
\* for it, and hands each of the other two sources to its sync function.
C39_EmptyKeyLeavesBrandmeisterOut ==
    (pool.once # "fresh" /\ pool.key = "") =>
        /\ pool.constructed["brandmeister"] = 0
        /\ pool.inited["brandmeister"] = 0
        /\ pool.tasks["brandmeister"] = "none"
        /\ pool.clients["brandmeister"] = NilClient
        /\ FailedAdapters \subseteq KeylessAdapters
        /\ \A k \in Callers :
              /\ (Returned(k) /\ k = pool.runner) =>
                    /\ pool.calls[k].ret = Nil <=> FailedAdapters = {}
                    /\ pool.calls[k].ret # Nil => pool.calls[k].ret \in KeylessAdapters
              /\ pool.calls[k].pc = "got" =>
                    /\ pool.calls[k].got["brandmeister"] = NilClient
                    /\ \A a \in KeylessAdapters : pool.calls[k].got[a] # NilClient
        /\ fast.exit \in {"running", "done"} =>
              /\ fast.src[FastSources[1]].st = "Skipped"
              /\ fast.src[FastSources[1]].handed = <<>>
              /\ \A l \in fast.lines : l.name # FastSources[1]
        /\ fast.exit = "done" =>
              \A s \in SourceSet \ {FastSources[1]} :
                  /\ fast.src[s].st \in {"FetchFailed", "SyncFailed", "Synced"}
                  /\ fast.files[s].ok => fast.src[s].handed = <<fast.files[s].elems>>

\* The pooled sync has ended after an Initialize with an empty key: the
\* Brandmeister source was skipped and the other two were synced.
C39_Witness ==
    /\ pool.key = "" /\ pool.calls[MainCaller].pc = "got"
    /\ fast.exit = "done"
    /\ fast.src[FastSources[1]].st = "Skipped"
    /\ \A s \in SourceSet \ {FastSources[1]} :
          fast.src[s].st = "Synced" /\ fast.src[s].synced > 0
    /\ fast.total > 0

====
